---- MODULE Spec2Model ----
(***************************************************************************)
(* Model of the MCTS search engine (training/reinforcement/mcts.py), the   *)
(* move index mapping (utils/chess_utils.py) and the self-play game loop   *)
(* (reinforcement/reinforcement_training_worker.py).                       *)
(*                                                                         *)
(* Numbers.  Python floats are modelled by exact rationals <<n, d>>, so    *)
(* rounding is not modelled.  Raw network probabilities are counted in     *)
(* units of 1e-8 (the floor used by the evaluators).  sqrt and exp are     *)
(* never evaluated: Q + u values are compared exactly through squares, and *)
(* exp((v - max) / T) is kept as a power of the base e^(-1/num(T)).        *)
(***************************************************************************)
EXTENDS Integers, Sequences, FiniteSets, TLC

VARIABLES
    net,            \* MCTS.model: which network the tree was built with
    n_simulations,  \* MCTS.n_simulations
    nodes,          \* heap of TreeNode objects, id -> fields
    root,           \* MCTS.root (None before set_root_node)
    lastOp,         \* the last MCTS call and its arguments
    ret,            \* what the last get_move_probs call returned
    err,            \* exception raised by the last call, or "none"
    evalCalls,      \* number of _policy_value_fn calls made by the last call
    hist,           \* how the root was installed, and the simulations run since
    ev,             \* one evaluator call: its input and what it returned
    mm,             \* the last query on the MoveMapping object and its answer
    game,           \* self-play worker: the game in progress
    pool,           \* one iteration's self-play: the orchestrator and its workers
    ex,             \* one extraction of training data from a game's move list
    enc             \* one call of convert_single_board: the board and the array

vars == <<net, n_simulations, nodes, root, lastOp, ret, err, evalCalls, hist, ev, mm, game,
          pool, ex, enc>>

None == 0

----------------------------------------------------------------------------
(* Bounds *)

BoardDim == 3       \* squares per side of the board (chess: 8)
MaxPly == 3         \* depth at which every position of the model game is final
MaxSims == 2        \* largest n_simulations
MaxRootPly == 2     \* longest move stack of a board given to set_root_node
MaxVisits == 4      \* root visits after which no further search is started
NumNets == 3        \* networks the tree can be built with
MaxRaw == 2         \* largest raw network probability, in units of 1e-8
MaxLegal == 3       \* legal moves of an evaluator harness board
MaxWorkers == 2     \* largest number of worker processes
MaxGames == 2       \* largest num_games_per_iteration
MaxPoolPly == 2     \* plies after which a game of a pool worker is over
MaxMoves == 3       \* longest move list of a recorded game
MaxNodes == 3       \* most nodes of a tree built by calls of expand
MaxNodeVisits == 2  \* most visits of the root of that tree
MaxEpFiles == 2     \* files on which an encoded board may have its en-passant square

----------------------------------------------------------------------------
(* Exact rationals <<n, d>>, d > 0, in lowest terms *)

Abs(x) == IF x < 0 THEN -x ELSE x

RECURSIVE GCD(_, _)
GCD(a, b) == IF b = 0 THEN a ELSE GCD(b, a % b)

Rat(n, d) ==
    LET s == IF d < 0 THEN -1 ELSE 1
        g == GCD(Abs(n), Abs(d))
    IN  IF n = 0 THEN <<0, 1>> ELSE <<(s * n) \div g, (s * d) \div g>>

RAdd(a, b) == Rat(a[1] * b[2] + b[1] * a[2], a[2] * b[2])
RSub(a, b) == Rat(a[1] * b[2] - b[1] * a[2], a[2] * b[2])
RMul(a, b) == Rat(a[1] * b[1], a[2] * b[2])
RDiv(a, b) == Rat(a[1] * b[2], a[2] * b[1])
RNeg(a) == <<-a[1], a[2]>>
RInt(k) == <<k, 1>>
RLess(a, b) == a[1] * b[2] < b[1] * a[2]
RLeq(a, b) == a[1] * b[2] <= b[1] * a[2]
Sign(x) == IF x > 0 THEN 1 ELSE IF x < 0 THEN -1 ELSE 0

RECURSIVE RSumSeq(_)
RSumSeq(s) == IF s = <<>> THEN RInt(0) ELSE RAdd(s[1], RSumSeq(Tail(s)))

RECURSIVE SumSeq(_)
SumSeq(s) == IF s = <<>> THEN 0 ELSE s[1] + SumSeq(Tail(s))

RECURSIVE MaxSeq(_)
MaxSeq(s) == IF Len(s) = 1 THEN s[1]
             ELSE LET r == MaxSeq(Tail(s)) IN IF s[1] >= r THEN s[1] ELSE r

Range(s) == {s[i] : i \in DOMAIN s}

----------------------------------------------------------------------------
(* chess.Move and MoveMapping (utils/chess_utils.py) *)

KNIGHT == 2
BISHOP == 3
ROOK == 4
QUEEN == 5

NumSquares == BoardDim * BoardDim
SQUARES == 0 .. (NumSquares - 1)
square_rank(sq) == sq \div BoardDim
LastRank == BoardDim - 1

Move(f, t, p) == [from_square |-> f, to_square |-> t, promotion |-> p]

PromotionPieces == <<KNIGHT, BISHOP, ROOK, QUEEN>>

\* a rank test that knows the last rank only
PromotionRank_last_only(t) == square_rank(t) = LastRank

\* the rank test of the mapping's constructor
PromotionRank(t) == square_rank(t) \in {0, LastRank}

\* what one iteration of the loop over product(SQUARES, repeat=2) appends
PairMoves(f, t) ==
    IF f = t THEN <<>>
    ELSE <<Move(f, t, None)>> \o
         (IF PromotionRank(t)
          THEN [i \in 1 .. 4 |-> Move(f, t, PromotionPieces[i])]
          ELSE <<>>)

\* product(SQUARES, repeat=2) runs the second square fastest: what the
\* iterations (f, t), (f, t + 1), ... append, and what those from f on append
RECURSIVE RowMoves(_, _)
RowMoves(f, t) ==
    IF t = NumSquares THEN <<>> ELSE PairMoves(f, t) \o RowMoves(f, t + 1)

RECURSIVE BuildMoves(_)
BuildMoves(f) ==
    IF f = NumSquares THEN <<>> ELSE RowMoves(f, 0) \o BuildMoves(f + 1)

\* dict(enumerate(m))
Enumerate(m) == [i \in 0 .. (Len(m) - 1) |-> m[i + 1]] @@ <<>>

MaxOf(S) == CHOOSE x \in S : \A y \in S : y <= x

\* {v: k for k, v in d.items()}: a later key overwrites an earlier one
Invert(d) ==
    [v \in {d[k] : k \in DOMAIN d} |-> MaxOf({k \in DOMAIN d : d[k] = v})] @@ <<>>

\* MoveMapping.__init__ and the module-level singleton
\* move_mapping = MoveMapping(): the fields of the object, which nothing
\* assigns to after the constructor
MoveList == BuildMoves(0)
MOVE_MAPPING == Enumerate(MoveList)
INDEX_MAPPING == Invert(MOVE_MAPPING)
TOTAL_MOVES == Len(MoveList)
get_total_moves == TOTAL_MOVES

\* dict.get returns None for a missing key.  Indices start at 0, so the None
\* of get_index_by_move is -1, and the None of get_move_by_index is a move
\* on no square.
NoIndex == -1
NoMove == Move(-1, -1, None)

\* the keys of the two dicts
MappedIndices == DOMAIN MOVE_MAPPING
MappedMoves == DOMAIN INDEX_MAPPING

\* MoveMapping.get_move_by_index and MoveMapping.get_index_by_move
get_move_by_index(i) == IF i \in MappedIndices THEN MOVE_MAPPING[i] ELSE NoMove
get_index_by_move(mv) == IF mv \in MappedMoves THEN INDEX_MAPPING[mv] ELSE NoIndex

----------------------------------------------------------------------------
(* chess.Board, as far as the search and the game loop use it.  A board is *)
(* its move stack; the rules of the model game decide, from the stack,     *)
(* which moves are legal and whether the game is over.                     *)

GameMoveIdx == <<0, 3, 10>>     \* the moves of the model game, by index
GameMoves == [i \in 1 .. Len(GameMoveIdx) |-> MOVE_MAPPING[GameMoveIdx[i]]] @@ <<>>
\* a move outside the model game counts 0
MoveNo(mv) ==
    IF \E i \in 1 .. Len(GameMoves) : GameMoves[i] = mv
    THEN CHOOSE i \in 1 .. Len(GameMoves) : GameMoves[i] = mv
    ELSE 0

InitialBoard == <<>>
push(b, mv) == Append(b, mv)
WHITE == TRUE
BLACK == FALSE
turn(b) == (Len(b) % 2 = 0)

RECURSIVE Key(_)
Key(b) == IF b = <<>> THEN 0 ELSE MoveNo(b[Len(b)]) + Key(SubSeq(b, 1, Len(b) - 1))

\* "checkmate" and "stalemate" leave the side to move without a legal move;
\* "draw_rule" is a draw by rule (material, repetition, move count) in a
\* position that still has legal moves
Status(b) ==
    IF Len(b) = 0 THEN "ongoing"
    ELSE IF Len(b) >= MaxPly
         THEN (IF Key(b) % 2 = 0 THEN "checkmate" ELSE "stalemate")
    ELSE IF Key(b) % 4 = 3 THEN "checkmate"
    ELSE IF Key(b) % 4 = 0 THEN "stalemate"
    ELSE IF Key(b) % 5 = 0 THEN "draw_rule"
    ELSE "ongoing"

is_checkmate(b) == Status(b) = "checkmate"
is_game_over(b) == Status(b) # "ongoing"

legal_moves(b) ==
    IF Status(b) \in {"checkmate", "stalemate"} THEN <<>>
    ELSE IF Key(b) % 2 = 0 THEN GameMoves
    ELSE <<GameMoves[2], GameMoves[1]>>

\* board.result(): the mated side is the side to move
result(b) ==
    IF Status(b) = "checkmate" THEN (IF turn(b) = WHITE THEN "0-1" ELSE "1-0")
    ELSE IF Status(b) = "ongoing" THEN "*"
    ELSE "1/2-1/2"

\* the positions reachable from the initial position
RECURSIVE BoardsFrom(_)
BoardsFrom(b) ==
    {b} \cup UNION {BoardsFrom(push(b, legal_moves(b)[i])) : i \in 1 .. Len(legal_moves(b))}

AllBoards == BoardsFrom(InitialBoard)
RootBoards == {b \in AllBoards : Len(b) <= MaxRootPly}

----------------------------------------------------------------------------
(* The network: an opaque function board -> (policy, value).  policy is    *)
(* the softmax output, in units of 1e-8 (0 where the softmax underflows);  *)
(* a network may have fewer outputs than the mapping has moves.            *)

ShortLen == 5

NetLen(n) == IF n = 2 THEN ShortLen ELSE TOTAL_MOVES

NetValue(n, b) ==
    IF n = 1 THEN RInt(((Key(b) + Len(b)) % 3) - 1)
    ELSE IF n = 2 THEN Rat((Key(b) % 5) - 2, 2)
    ELSE RInt(0)

model(n, b) ==
    LET shift == n * Key(b) + Len(b)
    IN  [len |-> NetLen(n),
         policy |-> [i \in 0 .. (NetLen(n) - 1) |-> (i + shift) % (MaxRaw + 1)],
         value |-> NetValue(n, b)]

----------------------------------------------------------------------------
(* The evaluators.  An ordered dict is a sequence of entries [mv, p].      *)

FLOOR == 1      \* 1e-8, in units of 1e-8

Max2(a, b) == IF a >= b THEN a ELSE b

Entry(mv, p) == [mv |-> mv, p |-> p]
Keys(d) == [i \in 1 .. Len(d) |-> d[i].mv]
KeySet(d) == {d[i].mv : i \in 1 .. Len(d)}
Lookup(d, mv) == d[CHOOSE i \in 1 .. Len(d) : d[i].mv = mv].p

\* mcts.py, the floor of one legal move (line 49)
FlooredProb(out, mv) ==
    LET idx == get_index_by_move(mv)
    IN  IF idx # NoIndex /\ idx < out.len THEN Max2(out.policy[idx], FLOOR) ELSE FLOOR

\* MCTS._policy_value_fn, after the forward pass produced out
MCTS_policy_value_fn(out, legal) ==
    IF legal = <<>> THEN [action_probs |-> <<>>, value |-> out.value]
    ELSE
    LET prob == [i \in 1 .. Len(legal) |-> FlooredProb(out, legal[i])]
        total_prob == SumSeq(prob)
    IN  [action_probs |->
            [i \in 1 .. Len(legal) |->
                Entry(legal[i], IF total_prob > 0 THEN Rat(prob[i], total_prob)
                                ELSE Rat(1, Len(legal)))],
         value |-> out.value]

\* the workers' policy_value_fn: what a legal move adds to the total
InRange(out, mv) ==
    LET idx == get_index_by_move(mv) IN idx # NoIndex /\ idx < out.len

WorkerTotal(out, legal) ==
    SumSeq([i \in 1 .. Len(legal) |->
              IF InRange(out, legal[i]) THEN FlooredProb(out, legal[i]) ELSE 0])

\* policy_value_fn of play_and_collect_wrapper / _play_and_collect_wrapper
policy_value_fn(out, legal) ==
    IF legal = <<>> THEN [action_probs |-> <<>>, value |-> out.value]
    ELSE
    LET prob == [i \in 1 .. Len(legal) |-> FlooredProb(out, legal[i])]
        total_prob == WorkerTotal(out, legal)
    IN  [action_probs |->
            [i \in 1 .. Len(legal) |->
                Entry(legal[i], IF total_prob > 0 THEN Rat(prob[i], total_prob)
                                ELSE Rat(1, Len(legal)))],
         value |-> out.value]

----------------------------------------------------------------------------
(* TreeNode (mcts.py).  Objects live in a heap, id -> fields; a reference  *)
(* is an id, None is 0.  children is an ordered dict of entries [mv, id].  *)
(* The field u is written by select and read nowhere else; it is left out. *)

TreeNode(parent, prior_p, board, move) ==
    [parent |-> parent, children |-> <<>>, n_visits |-> 0, Q |-> RInt(0),
     P |-> prior_p, board |-> board, move |-> move]

NewId(h) == Cardinality(DOMAIN h) + 1

HasChild(node, mv) == \E i \in 1 .. Len(node.children) : node.children[i].mv = mv
ChildId(node, mv) ==
    node.children[CHOOSE i \in 1 .. Len(node.children) : node.children[i].mv = mv].id

\* expand without the test of the prior
RECURSIVE expand_from_any_prior(_, _, _, _)
expand_from_any_prior(h, id, action_priors, i) ==
    IF i > Len(action_priors) THEN h
    ELSE LET mv == action_priors[i].mv
             prob == action_priors[i].p
         IN  IF ~HasChild(h[id], mv)
             THEN LET next_board == push(h[id].board, mv)
                      nid == NewId(h)
                      h1 == [k \in DOMAIN h \cup {nid} |->
                               IF k = nid THEN TreeNode(id, prob, next_board, mv)
                               ELSE IF k = id
                                    THEN [h[k] EXCEPT !.children =
                                            Append(@, [mv |-> mv, id |-> nid])]
                                    ELSE h[k]]
                  IN  expand_from_any_prior(h1, id, action_priors, i + 1)
             ELSE expand_from_any_prior(h, id, action_priors, i + 1)

\* expand with "next_board = self.board" in place of the copy: the push
\* lands on the board the node holds as well
RECURSIVE expand_from_shared_board(_, _, _, _)
expand_from_shared_board(h, id, action_priors, i) ==
    IF i > Len(action_priors) THEN h
    ELSE LET mv == action_priors[i].mv
             prob == action_priors[i].p
         IN  IF ~HasChild(h[id], mv) /\ RLess(RInt(0), prob)
             THEN LET next_board == push(h[id].board, mv)
                      nid == NewId(h)
                      h1 == [k \in DOMAIN h \cup {nid} |->
                               IF k = nid THEN TreeNode(id, prob, next_board, mv)
                               ELSE IF k = id
                                    THEN [h[k] EXCEPT !.board = next_board,
                                                      !.children =
                                            Append(@, [mv |-> mv, id |-> nid])]
                                    ELSE h[k]]
                  IN  expand_from_shared_board(h1, id, action_priors, i + 1)
             ELSE expand_from_shared_board(h, id, action_priors, i + 1)

\* TreeNode.expand: the loop over action_priors.items(), from entry i on
RECURSIVE expand_from(_, _, _, _)
expand_from(h, id, action_priors, i) ==
    IF i > Len(action_priors) THEN h
    ELSE LET mv == action_priors[i].mv
             prob == action_priors[i].p
         IN  IF ~HasChild(h[id], mv) /\ RLess(RInt(0), prob)
             THEN LET next_board == push(h[id].board, mv)
                      nid == NewId(h)
                      h1 == [k \in DOMAIN h \cup {nid} |->
                               IF k = nid THEN TreeNode(id, prob, next_board, mv)
                               ELSE IF k = id
                                    THEN [h[k] EXCEPT !.children =
                                            Append(@, [mv |-> mv, id |-> nid])]
                                    ELSE h[k]]
                  IN  expand_from(h1, id, action_priors, i + 1)
             ELSE expand_from(h, id, action_priors, i + 1)

expand(h, id, action_priors) == expand_from(h, id, action_priors, 1)

c_puct == <<7, 5>>      \* 1.4

\* a value q + w * sqrt(N) exceeds another one with the same N
ValueGreater(a, b, N) ==
    LET X == RSub(a.q, b.q)
        Y == RSub(b.w, a.w)
        X2 == RMul(X, X)
        NY2 == RMul(RInt(N), RMul(Y, Y))
    IN  IF X[1] > 0 /\ Y[1] <= 0 THEN TRUE
        ELSE IF X[1] <= 0 /\ Y[1] >= 0 THEN FALSE
        ELSE IF X[1] > 0 THEN RLess(NY2, X2)
        ELSE RLess(X2, NY2)

\* the value select gives the child cid, as q + w * sqrt(N): Q + u, or Q for
\* a parentless child.  The parent of a child is the node whose children are
\* iterated, or None, so N is that node's n_visits for every child.
SelectValue(h, cid) ==
    LET node == h[cid]
    IN  IF node.parent # None
        THEN [q |-> node.Q, w |-> RDiv(RMul(c_puct, node.P), RInt(1 + node.n_visits))]
        ELSE [q |-> node.Q, w |-> RInt(0)]

\* select with a later child of equal value taking the place of the best
RECURSIVE select_from_last_best(_, _, _, _)
select_from_last_best(h, id, i, best) ==
    IF i > Len(h[id].children) THEN best
    ELSE LET cid == h[id].children[i].id
             value == SelectValue(h, cid)
             better == IF best = 0 THEN TRUE
                       ELSE ~ValueGreater(SelectValue(h, h[id].children[best].id), value,
                                          h[id].n_visits)
         IN  select_from_last_best(h, id, i + 1, IF better THEN i ELSE best)

\* TreeNode.select: the loop over children.items(), from entry i on, with
\* best the entry of the best value so far (0: best_value is still -inf)
RECURSIVE select_from(_, _, _, _)
select_from(h, id, i, best) ==
    IF i > Len(h[id].children) THEN best
    ELSE LET cid == h[id].children[i].id
             value == SelectValue(h, cid)
             better == IF best = 0 THEN TRUE
                       ELSE ValueGreater(value, SelectValue(h, h[id].children[best].id),
                                         h[id].n_visits)
         IN  select_from(h, id, i + 1, IF better THEN i ELSE best)

select(h, id) == h[id].children[select_from(h, id, 1, 0)].id

\* update_recursive without the call on the parent
update_recursive_leaf_only(h, id, leaf_value) ==
    LET n == h[id].n_visits + 1
    IN  [h EXCEPT ![id].n_visits = n,
                  ![id].Q = RAdd(@, RDiv(RSub(leaf_value, @), RInt(n)))]

\* update_recursive that stops at the parent
update_recursive_parent_only(h, id, leaf_value) ==
    LET h1 == IF h[id].parent # None
              THEN update_recursive_leaf_only(h, h[id].parent, RNeg(leaf_value))
              ELSE h
        n == h1[id].n_visits + 1
    IN  [h1 EXCEPT ![id].n_visits = n,
                   ![id].Q = RAdd(@, RDiv(RSub(leaf_value, @), RInt(n)))]

\* update_recursive handing the parent the value it was given
RECURSIVE update_recursive_same_sign(_, _, _)
update_recursive_same_sign(h, id, leaf_value) ==
    LET h1 == IF h[id].parent # None
              THEN update_recursive_same_sign(h, h[id].parent, leaf_value)
              ELSE h
        n == h1[id].n_visits + 1
    IN  [h1 EXCEPT ![id].n_visits = n,
                   ![id].Q = RAdd(@, RDiv(RSub(leaf_value, @), RInt(n)))]

\* TreeNode.update_recursive
RECURSIVE update_recursive(_, _, _)
update_recursive(h, id, leaf_value) ==
    LET h1 == IF h[id].parent # None
              THEN update_recursive(h, h[id].parent, RNeg(leaf_value))
              ELSE h
        n == h1[id].n_visits + 1
    IN  [h1 EXCEPT ![id].n_visits = n,
                   ![id].Q = RAdd(@, RDiv(RSub(leaf_value, @), RInt(n)))]

----------------------------------------------------------------------------
(* MCTS (mcts.py).  An operation maps the object's state [nodes, root] to  *)
(* its new state and reports the evaluator calls it made.                  *)

\* self._policy_value_fn: the method of mcts.py, or the function the
\* self-play worker built and passed to the MCTS it plays a game with
evaluate(board) ==
    IF game.pc = "idle" THEN MCTS_policy_value_fn(model(net, board), legal_moves(board))
    ELSE policy_value_fn(model(net, board), legal_moves(board))

\* set_root_node without the expansion of the new root
set_root_node_unexpanded(h, board) ==
    LET rid == NewId(h)
        h1 == [k \in DOMAIN h \cup {rid} |->
                 IF k = rid THEN TreeNode(None, RInt(1), board, NoMove) ELSE h[k]]
    IN  [nodes |-> h1, root |-> rid, calls |-> 1, err |-> "none"]

\* set_root_node
set_root_node(h, board) ==
    LET rid == NewId(h)
        h1 == [k \in DOMAIN h \cup {rid} |->
                 IF k = rid THEN TreeNode(None, RInt(1), board, NoMove) ELSE h[k]]
        pv == evaluate(board)
    IN  [nodes |-> expand(h1, rid, pv.action_probs), root |-> rid, calls |-> 1,
         err |-> "none"]

\* the descent "while node.children: _, node = node.select(c_puct)"
RECURSIVE descend(_, _)
descend(h, id) == IF h[id].children # <<>> THEN descend(h, select(h, id)) ELSE id

result_map(r) == IF r = "1-0" THEN RInt(1) ELSE IF r = "0-1" THEN RInt(-1) ELSE RInt(0)

\* the value of the leaf, before update_recursive negates it
LeafValue(board, value_out) ==
    IF ~is_game_over(board) THEN value_out ELSE result_map(result(board))

\* one iteration of the simulation loop of get_move_probs
simulate(h, rt) ==
    LET node == descend(h, rt)
        pv == evaluate(h[node].board)
        h1 == IF ~is_game_over(h[node].board) THEN expand(h, node, pv.action_probs) ELSE h
        leaf_value == LeafValue(h[node].board, pv.value)
    IN  update_recursive(h1, node, RNeg(leaf_value))

\* the boards passed to self._policy_value_fn by n simulations, in order
RECURSIVE evaluated(_, _, _)
evaluated(h, rt, n) ==
    IF n = 0 THEN <<>>
    ELSE <<h[descend(h, rt)].board>> \o evaluated(simulate(h, rt), rt, n - 1)

RECURSIVE simulations(_, _, _)
simulations(h, rt, n) == IF n = 0 THEN h ELSE simulations(simulate(h, rt), rt, n - 1)

\* probabilities of get_move_probs.  With T = a/b the weight
\* exp((v - max) / T) is x^((max - v) * b) for x = e^(-1/a), so a probability
\* is c * x^k / (x^z[1] + ... + x^z[n]): [c, k, z].  0.0 and 1.0 are c / x^0.
Prob(c, k, z) == [c |-> c, k |-> k, z |-> z]

THRESHOLD == <<1, 1000>>    \* 1e-3

\* an argmax that returns the last index of a maximal element
argmax_last(v) == CHOOSE i \in 1 .. Len(v) : v[i] = MaxSeq(v) /\ \A j \in (i + 1) .. Len(v) : v[j] < v[i]

\* np.argmax: the first index of a maximal element
argmax(v) == CHOOSE i \in 1 .. Len(v) : v[i] = MaxSeq(v) /\ \A j \in 1 .. (i - 1) : v[j] < v[i]

\* lines 79-88 of get_move_probs: the distribution over the root's children.
\* Unpacking the zip of move_visits raises ValueError for an empty list.
distribution(h, rt, temperature) ==
    IF h[rt].children = <<>> THEN [ret |-> <<>>, err |-> "ValueError"]
    ELSE
    LET ch == h[rt].children
        visits == [i \in 1 .. Len(ch) |-> h[ch[i].id].n_visits]
        exps == [i \in 1 .. Len(ch) |-> (MaxSeq(visits) - visits[i]) * temperature[2]]
    IN  [ret |-> IF RLeq(temperature, THRESHOLD)
                 THEN [i \in 1 .. Len(ch) |->
                         Entry(ch[i].mv, Prob(IF i = argmax(visits) THEN 1 ELSE 0, 0, <<0>>))]
                 ELSE [i \in 1 .. Len(ch) |-> Entry(ch[i].mv, Prob(1, exps[i], exps))],
         err |-> "none"]

\* the return without the test for an empty children map
move_probs_unguarded(h, rt, temperature) == distribution(h, rt, temperature)

\* lines 77-88 of get_move_probs: what is returned after the simulations
move_probs(h, rt, temperature) ==
    IF h[rt].children = <<>> THEN [ret |-> <<>>, err |-> "none"]
    ELSE distribution(h, rt, temperature)

\* get_move_probs
get_move_probs(h, rt, temperature) ==
    LET h1 == simulations(h, rt, n_simulations)
        d == move_probs(h1, rt, temperature)
    IN  [nodes |-> h1, root |-> rt, calls |-> n_simulations, ret |-> d.ret, err |-> d.err]

\* update_with_move that rebuilds the root whether or not the child exists
update_with_move_always_rebuilt(h, rt, last_move) ==
    set_root_node(h, push(h[rt].board, last_move))

\* update_with_move that leaves the root where it is
update_with_move_root_kept(h, rt, last_move) ==
    [nodes |-> h, root |-> rt, calls |-> 0, err |-> "none"]

\* update_with_move that leaves the new root's parent reference in place
update_with_move_keep_parent(h, rt, last_move) ==
    IF HasChild(h[rt], last_move)
    THEN [nodes |-> h, root |-> ChildId(h[rt], last_move), calls |-> 0, err |-> "none"]
    ELSE set_root_node(h, push(h[rt].board, last_move))

\* update_with_move
update_with_move(h, rt, last_move) ==
    IF HasChild(h[rt], last_move)
    THEN LET c == ChildId(h[rt], last_move)
         IN  [nodes |-> [h EXCEPT ![c].parent = None], root |-> c, calls |-> 0,
              err |-> "none"]
    ELSE set_root_node(h, push(h[rt].board, last_move))

----------------------------------------------------------------------------
(* The MCTS object under arbitrary calls *)

Temperatures == {THRESHOLD, <<1, 1>>, <<2, 1>>}

NoOp == [op |-> "init", board |-> <<>>, temperature |-> <<0, 1>>, move |-> NoMove]
Idle == [pc |-> "idle"]

InitMCTS ==
    /\ net \in 1 .. NumNets
    /\ n_simulations \in 0 .. MaxSims
    /\ nodes = <<>>
    /\ root = None
    /\ lastOp = NoOp
    /\ ret = <<>>
    /\ err = "none"
    /\ evalCalls = 0
    /\ hist = [origin |-> "none", sims |-> 0]

Init ==
    /\ InitMCTS
    /\ ev = Idle
    /\ mm = Idle
    /\ game = Idle
    /\ pool = Idle
    /\ ex = Idle
    /\ enc = Idle

\* Objects no reference leads to are freed, and an object has no identity
\* beyond its fields: after a call the live objects (those the root reaches
\* through children and parent references) are renumbered, the nodes below
\* the root in depth-first order first.
RECURSIVE Preorder(_, _)
RECURSIVE PreorderKids(_, _, _)
Preorder(h, id) == <<id>> \o PreorderKids(h, h[id].children, 1)
PreorderKids(h, ch, i) ==
    IF i > Len(ch) THEN <<>> ELSE Preorder(h, ch[i].id) \o PreorderKids(h, ch, i + 1)

Refs(h, id) == {h[id].children[i].id : i \in 1 .. Len(h[id].children)}
                 \cup (IF h[id].parent = None THEN {} ELSE {h[id].parent})

RECURSIVE Live(_, _)
Live(h, S) ==
    LET T == S \cup UNION {Refs(h, id) : id \in S}
    IN  IF T = S THEN S ELSE Live(h, T)

RECURSIVE Ascending(_)
Ascending(S) ==
    IF S = {} THEN <<>>
    ELSE LET m == CHOOSE x \in S : \A y \in S : x <= y IN <<m>> \o Ascending(S \ {m})

Compact(h, rt) ==
    LET below == Preorder(h, rt)
        ord == below \o Ascending(Live(h, {rt}) \ Range(below))
        new(id) == CHOOSE k \in 1 .. Len(ord) : ord[k] = id
    IN  [k \in 1 .. Len(ord) |->
            LET n == h[ord[k]]
            IN  [n EXCEPT !.parent = IF n.parent = None THEN None ELSE new(n.parent),
                          !.children = [i \in 1 .. Len(n.children) |->
                                          [mv |-> n.children[i].mv,
                                           id |-> new(n.children[i].id)]]]]

\* the state of the object after a call that returned r
Returned(r) ==
    /\ nodes' = Compact(r.nodes, r.root)
    /\ root' = 1
    /\ evalCalls' = r.calls
    /\ err' = r.err

\* a call on an object whose root is still None raises
Raised ==
    /\ err' = "AttributeError"
    /\ evalCalls' = 0
    /\ ret' = <<>>
    /\ UNCHANGED <<nodes, root, hist>>

SetRootNode(board) ==
    /\ lastOp' = [NoOp EXCEPT !.op = "set_root_node", !.board = board]
    /\ Returned(set_root_node(nodes, board))
    /\ ret' = <<>>
    /\ hist' = [origin |-> "set_root_node", sims |-> 0]
    /\ UNCHANGED <<net, n_simulations, ev, mm, game, pool, ex, enc>>

GetMoveProbs(temperature) ==
    /\ lastOp' = [NoOp EXCEPT !.op = "get_move_probs", !.temperature = temperature]
    /\ IF root = None THEN Raised
       ELSE /\ nodes[root].n_visits + n_simulations <= MaxVisits
            /\ LET r == get_move_probs(nodes, root, temperature)
               IN  Returned(r) /\ ret' = r.ret
            /\ hist' = [hist EXCEPT !.sims = @ + n_simulations]
    /\ UNCHANGED <<net, n_simulations, ev, mm, game, pool, ex, enc>>

UpdateWithMove(last_move) ==
    /\ lastOp' = [NoOp EXCEPT !.op = "update_with_move", !.move = last_move]
    /\ IF root = None THEN Raised
       ELSE /\ last_move \in Range(legal_moves(nodes[root].board))
            /\ Returned(update_with_move(nodes, root, last_move))
            /\ ret' = <<>>
            /\ hist' = [origin |-> IF HasChild(nodes[root], last_move)
                                   THEN "child" ELSE "set_root_node",
                        sims |-> 0]
    /\ UNCHANGED <<net, n_simulations, ev, mm, game, pool, ex, enc>>

Next ==
    \/ \E board \in RootBoards : SetRootNode(board)
    \/ \E temperature \in Temperatures : GetMoveProbs(temperature)
    \/ \E last_move \in Range(GameMoves) : UpdateWithMove(last_move)

Spec == Init /\ [][Next]_vars

----------------------------------------------------------------------------
(* The evaluators on arbitrary inputs: a list of legal moves and a network *)
(* output whose length may stay below the index of a legal move.           *)

\* the legal moves come from the moves of the first MaxLegal indices
EvalPool == [k \in 1 .. MaxLegal |-> get_move_by_index(k - 1)]

Injective(f) == \A i, j \in DOMAIN f : f[i] = f[j] => i = j

\* board.legal_moves lists no move twice
LegalLists ==
    {[i \in DOMAIN s |-> EvalPool[s[i]]] :
        s \in {f \in UNION {[1 .. n -> 1 .. MaxLegal] : n \in 0 .. MaxLegal} : Injective(f)}}

Outputs ==
    {[len |-> Len(p), policy |-> [i \in 0 .. (Len(p) - 1) |-> p[i + 1]], value |-> RInt(0)] :
        p \in UNION {[1 .. n -> 0 .. MaxRaw] : n \in 0 .. MaxLegal}}

NoResult == [action_probs |-> <<>>, value |-> RInt(0)]

\* the objects the evaluator harness does not touch
NoMCTS ==
    /\ net = 1
    /\ n_simulations = 0
    /\ nodes = <<>>
    /\ root = None
    /\ lastOp = NoOp
    /\ ret = <<>>
    /\ err = "none"
    /\ evalCalls = 0
    /\ hist = [origin |-> "none", sims |-> 0]

InitEval ==
    /\ NoMCTS
    /\ ev \in {[pc |-> "input", legal |-> l, out |-> o, res |-> NoResult] :
                 l \in LegalLists, o \in Outputs}
    /\ mm = Idle
    /\ game = Idle
    /\ pool = Idle
    /\ ex = Idle
    /\ enc = Idle

\* MCTS._policy_value_fn(board)
EvalMCTS ==
    /\ ev.pc = "input"
    /\ ev' = [ev EXCEPT !.pc = "MCTS._policy_value_fn",
                        !.res = MCTS_policy_value_fn(ev.out, ev.legal)]
    /\ UNCHANGED <<net, n_simulations, nodes, root, lastOp, ret, err, evalCalls, hist, mm, game, pool, ex, enc>>

\* policy_value_fn(board) of the self-play workers
EvalWorker ==
    /\ ev.pc = "input"
    /\ ev' = [ev EXCEPT !.pc = "policy_value_fn",
                        !.res = policy_value_fn(ev.out, ev.legal)]
    /\ UNCHANGED <<net, n_simulations, nodes, root, lastOp, ret, err, evalCalls, hist, mm, game, pool, ex, enc>>

NextEval ==
    \/ EvalMCTS
    \/ EvalWorker

SpecEval == InitEval /\ [][NextEval]_vars

----------------------------------------------------------------------------
(* The MoveMapping object under arbitrary queries *)

NoQuery == [op |-> "none", i |-> NoIndex, mv |-> NoMove]

\* what a caller may pass for a move: any pair of squares with any piece
CandidateMoves ==
    {Move(f, t, p) : f \in SQUARES, t \in SQUARES, p \in {None} \cup Range(PromotionPieces)}

InitMap ==
    /\ NoMCTS
    /\ ev = Idle
    /\ mm = [pc |-> "built", q |-> NoQuery]
    /\ game = Idle
    /\ pool = Idle
    /\ ex = Idle
    /\ enc = Idle

GetMoveByIndex(i) ==
    /\ mm.pc = "built"
    /\ mm' = [mm EXCEPT !.q = [op |-> "get_move_by_index", i |-> i,
                               mv |-> get_move_by_index(i)]]
    /\ UNCHANGED <<net, n_simulations, nodes, root, lastOp, ret, err, evalCalls, hist, ev, game, pool, ex, enc>>

GetIndexByMove(mv) ==
    /\ mm.pc = "built"
    /\ mm' = [mm EXCEPT !.q = [op |-> "get_index_by_move", mv |-> mv,
                               i |-> get_index_by_move(mv)]]
    /\ UNCHANGED <<net, n_simulations, nodes, root, lastOp, ret, err, evalCalls, hist, ev, game, pool, ex, enc>>

NextMap ==
    \/ \E i \in -1 .. TOTAL_MOVES : GetMoveByIndex(i)
    \/ \E mv \in CandidateMoves : GetIndexByMove(mv)

SpecMap == InitMap /\ [][NextMap]_vars

----------------------------------------------------------------------------
(* One game of the self-play workers: play_and_collect_wrapper             *)
(* (training/reinforcement) and _play_and_collect_wrapper (reinforcement). *)
(* Both play with an MCTS built on their own policy_value_fn; the search   *)
(* they import is the tree search of mcts.py with that evaluator.          *)

max_moves == 200

Wrappers == {"play_and_collect_wrapper", "_play_and_collect_wrapper"}

\* get_game_result(board)
get_game_result(board) ==
    LET r == result(board)
    IN  IF r = "1-0" THEN RInt(1) ELSE IF r = "0-1" THEN RInt(-1) ELSE RInt(0)

\* a row that holds the first key's probability only
prob_array_first_key_only(action_probs) ==
    [i \in {get_index_by_move(action_probs[1].mv)} |-> action_probs[1].p]

\* the row of mcts_probs for one position: a vector of TOTAL_MOVES zeros with
\* the probability of every returned move at the move's index.  Kept as the
\* assigned entries; every other index holds 0.
prob_array(action_probs) ==
    LET idx(k) == get_index_by_move(action_probs[k].mv)
        assigned == {k \in 1 .. Len(action_probs) :
                        idx(k) # NoIndex /\ 0 <= idx(k) /\ idx(k) < TOTAL_MOVES}
    IN  [i \in {idx(k) : k \in assigned} |->
            action_probs[CHOOSE k \in assigned : idx(k) = i /\ \A j \in assigned : idx(j) = i => j <= k].p]

winners_unfinished_as_loss(board, current_players) ==
    LET r == get_game_result(board)
        last_player == ~turn(board)
    IN  IF is_checkmate(board)
        THEN [i \in 1 .. Len(current_players) |->
                IF current_players[i] = last_player THEN r ELSE RNeg(r)]
        ELSE [i \in 1 .. Len(current_players) |-> RInt(-1)]

\* the labels of the recorded positions, once the game loop is left
winners(board, current_players) ==
    LET r == get_game_result(board)
        last_player == ~turn(board)
    IN  IF is_checkmate(board)
        THEN [i \in 1 .. Len(current_players) |->
                IF current_players[i] = last_player THEN r ELSE RNeg(r)]
        ELSE [i \in 1 .. Len(current_players) |-> RInt(0)]

\* the statements after the game loop
finish(g) ==
    [g EXCEPT !.pc = "done",
              !.result = get_game_result(g.board),
              !.winners = winners(g.board, g.current_players),
              !.game_length = Len(g.states)]

NewGame(fn, temperature) ==
    [pc |-> "start", fn |-> fn, temperature |-> temperature, board |-> InitialBoard,
     states |-> <<>>, mcts_probs |-> <<>>, current_players |-> <<>>,
     move_count |-> 0, total_visits |-> 0, num_moves |-> 0,
     result |-> RInt(0), winners |-> <<>>, game_length |-> 0]

InitGame ==
    /\ InitMCTS
    /\ ev = Idle
    /\ mm = Idle
    /\ game \in {NewGame(fn, t) : fn \in Wrappers, t \in Temperatures}
    /\ pool = Idle
    /\ ex = Idle
    /\ enc = Idle

\* board = chess.Board(); mcts = MCTS(...); mcts.set_root_node(board)
StartGame ==
    /\ game.pc = "start"
    /\ game' = [game EXCEPT !.pc = "playing"]
    /\ lastOp' = [NoOp EXCEPT !.op = "set_root_node", !.board = InitialBoard]
    /\ Returned(set_root_node(<<>>, InitialBoard))
    /\ ret' = <<>>
    /\ hist' = [origin |-> "set_root_node", sims |-> 0]
    /\ UNCHANGED <<net, n_simulations, ev, mm, pool, ex, enc>>

\* the body of the game loop after get_move_probs returned r with no move:
\* one wrapper leaves the loop, the other one raises in np.random.choice
NoMoveToPlay(r) ==
    /\ game' = IF game.fn = "play_and_collect_wrapper" THEN finish(game)
               ELSE [game EXCEPT !.pc = "raised"]
    /\ lastOp' = [NoOp EXCEPT !.op = "get_move_probs", !.temperature = game.temperature]
    /\ Returned(r)
    /\ ret' = r.ret
    /\ hist' = [hist EXCEPT !.sims = @ + n_simulations]

\* the body of the game loop after np.random.choice drew move, with u the
\* search after update_with_move(move)
MovePlayed(r, move, u) ==
    /\ game' = [game EXCEPT !.states = Append(@, game.board),
                            !.mcts_probs = Append(@, prob_array(r.ret)),
                            !.current_players = Append(@, turn(game.board)),
                            !.board = push(@, move),
                            !.total_visits = @ + u.nodes[u.root].n_visits,
                            !.num_moves = @ + 1,
                            !.move_count = @ + 1]
    /\ lastOp' = [NoOp EXCEPT !.op = "update_with_move", !.move = move]
    /\ Returned(u)
    /\ ret' = r.ret
    /\ hist' = [origin |-> IF HasChild(r.nodes[r.root], move) THEN "child"
                           ELSE "set_root_node",
                sims |-> 0]

\* the body of the game loop from the return of get_move_probs on;
\* np.random.choice draws a move of positive probability
LoopBody(r) ==
    IF r.ret = <<>> THEN NoMoveToPlay(r)
    ELSE \E k \in 1 .. Len(r.ret) :
            /\ r.ret[k].p.c > 0
            /\ MovePlayed(r, r.ret[k].mv, update_with_move(r.nodes, r.root, r.ret[k].mv))

\* one pass through the game loop
PlayMove ==
    /\ game.pc = "playing"
    /\ ~is_game_over(game.board)
    /\ game.move_count < max_moves
    /\ LoopBody(get_move_probs(nodes, root, game.temperature))
    /\ UNCHANGED <<net, n_simulations, ev, mm, pool, ex, enc>>

\* the game loop's condition fails: label the recorded positions
FinishGame ==
    /\ game.pc = "playing"
    /\ is_game_over(game.board) \/ game.move_count >= max_moves
    /\ game' = finish(game)
    /\ UNCHANGED <<net, n_simulations, nodes, root, lastOp, ret, err, evalCalls, hist, ev, mm, pool, ex, enc>>

NextGame ==
    \/ StartGame
    \/ PlayMove
    \/ FinishGame

SpecGame == InitGame /\ [][NextGame]_vars

----------------------------------------------------------------------------
(* One iteration of self-play: _generate_self_play_data and the worker     *)
(* processes it starts with Pool.map.  The three orchestrators are         *)
(* "training" (training/reinforcement), "reinforcement" (reinforcement)    *)
(* and "self_play" (self_play/self_play_trainer.py).  A worker's game is   *)
(* kept as the plies it recorded: the position recorded at ply k of the    *)
(* worker's game number g is [game |-> g, ply |-> k], and it stands for    *)
(* the entries of states, mcts_probs and winners at the same list index.   *)

mctsVars == <<net, n_simulations, nodes, root, lastOp, ret, err, evalCalls, hist>>

Variants == {"training", "reinforcement", "self_play"}

\* games_per_process, remainder and the games entry of args[i]
games_for(variant, G, W, i) ==
    LET games_per_process == G \div W
        remainder == G % W
    IN  IF variant = "self_play" THEN games_per_process
        ELSE games_per_process + (IF i < remainder THEN 1 ELSE 0)

\* a worker process at its first statement.  pause_checked, moved_unchecked,
\* late_start and failed record what the worker did, for the properties below.
NewWorker(games) ==
    [pc |-> "loading", games |-> games, game_no |-> 0, move_count |-> 0, over |-> FALSE,
     result |-> RInt(0),
     states |-> <<>>, mcts_probs |-> <<>>, current_players |-> <<>>,
     inputs_list |-> <<>>, policy_targets_list |-> <<>>, value_targets_list |-> <<>>,
     results_list |-> <<>>, game_lengths_list |-> <<>>, st |-> <<>>,
     pause_checked |-> FALSE, moved_unchecked |-> FALSE, late_start |-> FALSE,
     failed |-> FALSE]

NewPool(variant, G, W) ==
    [pc |-> "idle", variant |-> variant, num_games_per_iteration |-> G, num_processes |-> W,
     stop_set |-> FALSE, pause_set |-> TRUE, stop_event |-> FALSE, pause_event |-> FALSE,
     workers |-> <<>>, stats_queue |-> {}, logged |-> {}, reported |-> {},
     merged |-> <<>>]

InitPool ==
    /\ NoMCTS
    /\ ev = Idle
    /\ mm = Idle
    /\ game = Idle
    /\ pool \in {NewPool(v, G, W) : v \in Variants, G \in 0 .. MaxGames, W \in 1 .. MaxWorkers}
    /\ ex = Idle
    /\ enc = Idle

WorkerIds == 0 .. (pool.num_processes - 1)

\* the user stops, pauses or resumes the run: the orchestrator's own events
\* (_is_stopped / stop_event, _is_paused / pause_event; the pause event is
\* set while the run is not paused)
RequestStop ==
    /\ pool.pc \in {"idle", "running"}
    /\ ~pool.stop_set
    /\ pool' = [pool EXCEPT !.stop_set = TRUE]
    /\ UNCHANGED <<mctsVars, ev, mm, game, ex, enc>>

RequestPause ==
    /\ pool.pc \in {"idle", "running"}
    /\ pool.pause_set
    /\ pool' = [pool EXCEPT !.pause_set = FALSE]
    /\ UNCHANGED <<mctsVars, ev, mm, game, ex, enc>>

RequestResume ==
    /\ pool.pc \in {"idle", "running"}
    /\ ~pool.pause_set
    /\ pool' = [pool EXCEPT !.pause_set = TRUE]
    /\ UNCHANGED <<mctsVars, ev, mm, game, ex, enc>>

\* _generate_self_play_data up to the call of pool.map: the manager's events
\* take the state the orchestrator's events have now, and every worker gets
\* its args
StartPool ==
    /\ pool.pc = "idle"
    /\ pool' = [pool EXCEPT
                  !.pc = "running",
                  !.stop_event = pool.stop_set,
                  !.pause_event = pool.pause_set,
                  !.workers = [i \in WorkerIds |->
                                 NewWorker(games_for(pool.variant,
                                                     pool.num_games_per_iteration,
                                                     pool.num_processes, i))]]
    /\ UNCHANGED <<mctsVars, ev, mm, game, ex, enc>>

\* the position a worker records at ply k of its game number g
Position(w, g, k) == [worker |-> w, game |-> g, ply |-> k]

\* wait_if_paused(pause_event) returns once the event is set
wait_if_paused(pause_event) == pause_event

\* a while loop that tests the end of the game only
loop_condition_uncapped(wk) == ~wk.over

\* the condition of the worker's while loop; MaxPoolPly is its max_moves
loop_condition_capped_early(wk) == ~wk.over /\ wk.move_count < MaxPoolPly - 1

loop_condition(wk) == ~wk.over /\ wk.move_count < MaxPoolPly

\* why the game loop of wk was left
end_condition(wk, empty) ==
    IF empty THEN "empty"
    ELSE IF wk.over THEN "game_over"
    ELSE IF wk.move_count >= MaxPoolPly THEN "ply_cap"
    ELSE "unfinished"

\* get_game_result of the position after a ply by player (WHITE moves
\* first): the player who gave mate has won, anything else counts as 0.0
game_result(checkmate, player) ==
    IF ~checkmate THEN RInt(0) ELSE IF player = WHITE THEN RInt(1) ELSE RInt(-1)

\* labels for the positions of the last player only
labels_last_player_only(outcome, current_players) ==
    IF current_players = <<>> THEN <<>>
    ELSE LET last_player == current_players[Len(current_players)]
         IN  SelectSeq([i \in 1 .. Len(current_players) |->
                          IF current_players[i] = last_player THEN outcome ELSE RInt(0)],
                       LAMBDA v : v # RInt(0))

\* winners: the labels of a game's positions.  board.result() is decisive
\* exactly when the final position is checkmate, and the player who gave
\* mate is the one who moved last
labels(outcome, current_players) ==
    IF outcome # RInt(0)
    THEN LET last_player == current_players[Len(current_players)]
         IN  [i \in 1 .. Len(current_players) |->
                IF current_players[i] = last_player THEN outcome ELSE RNeg(outcome)]
    ELSE [i \in 1 .. Len(current_players) |-> RInt(0)]

\* the statements after the game loop: the game's lists are appended to the
\* lists the worker returns
collect(wk, empty) ==
    [wk EXCEPT !.pc = "between",
               !.game_no = wk.game_no + 1,
               !.inputs_list = wk.inputs_list \o wk.states,
               !.policy_targets_list = wk.policy_targets_list \o wk.mcts_probs,
               !.value_targets_list =
                   wk.value_targets_list \o labels(wk.result, wk.current_players),
               !.results_list = Append(wk.results_list,
                                       [end |-> end_condition(wk, empty),
                                        game_length |-> wk.move_count,
                                        result |-> wk.result]),
               !.game_lengths_list = Append(wk.game_lengths_list, Len(wk.states)),
               !.states = <<>>,
               !.mcts_probs = <<>>,
               !.current_players = <<>>]

\* the loop is tested again after a ply, and left when it fails
after_ply(wk) == IF loop_condition(wk) THEN wk ELSE collect(wk, FALSE)

\* the worker builds its model from model_state_dict.  The training variant
\* reports a failure on stats_queue and returns empty lists; in the other
\* variants the exception leaves the worker.
LoadWeights(w) ==
    /\ pool.pc = "running"
    /\ pool.workers[w].pc = "loading"
    /\ \E ok \in BOOLEAN :
         pool' = IF ok
                 THEN [pool EXCEPT !.workers[w].pc = "between"]
                 ELSE IF pool.variant = "training"
                 THEN [pool EXCEPT !.workers[w].pc = "returned",
                                   !.workers[w].failed = TRUE,
                                   !.stats_queue = @ \cup {[worker |-> w, error |-> TRUE]}]
                 ELSE [pool EXCEPT !.workers[w].pc = "raised",
                                   !.workers[w].failed = TRUE]
    /\ UNCHANGED <<mctsVars, ev, mm, game, ex, enc>>

\* the head of the for loop with the range not exhausted, no stop seen and
\* the pause event set: the next game starts
BeginGame(w) ==
    LET wk == pool.workers[w]
    IN  /\ pool.pc = "running"
        /\ wk.pc = "between"
        /\ wk.game_no < wk.games
        /\ ~pool.stop_event
        /\ wait_if_paused(pool.pause_event)
        /\ pool' = [pool EXCEPT !.workers[w] =
                      [wk EXCEPT !.pc = "playing", !.move_count = 0, !.over = FALSE,
                                 !.result = RInt(0),
                                 !.states = <<>>, !.mcts_probs = <<>>,
                                 !.current_players = <<>>, !.pause_checked = TRUE,
                                 !.late_start = wk.late_start \/ pool.stop_set]]
        /\ UNCHANGED <<mctsVars, ev, mm, game, ex, enc>>

\* one pass of the game loop: get_move_probs, then either no move to play
\* (the loop is left in the training and self-play variants, while
\* np.random.choice raises in the reinforcement variant) or the position is
\* recorded and the chosen move pushed, after which the game may be over
PlayPly(w) ==
    LET wk == pool.workers[w]
        played(game_over, checkmate) ==
            [wk EXCEPT !.states = Append(wk.states, Position(w, wk.game_no, wk.move_count)),
                       !.mcts_probs = Append(wk.mcts_probs,
                                             Position(w, wk.game_no, wk.move_count)),
                       !.current_players = Append(wk.current_players,
                                                  wk.move_count % 2 = 0),
                       !.move_count = wk.move_count + 1,
                       !.over = game_over,
                       !.result = game_result(game_over /\ checkmate, wk.move_count % 2 = 0),
                       !.moved_unchecked = wk.moved_unchecked \/ ~wk.pause_checked,
                       !.pause_checked = FALSE]
    IN  /\ pool.pc = "running"
        /\ wk.pc = "playing"
        /\ \E empty \in BOOLEAN, game_over \in BOOLEAN, checkmate \in BOOLEAN :
             pool' = [pool EXCEPT !.workers[w] =
                        IF ~empty THEN after_ply(played(game_over, checkmate))
                        ELSE IF pool.variant = "reinforcement"
                        THEN [wk EXCEPT !.pc = "raised", !.failed = TRUE]
                        ELSE collect(wk, TRUE)]
        /\ UNCHANGED <<mctsVars, ev, mm, game, ex, enc>>

\* results_list.count(r)
count(results_list, r) ==
    Cardinality({g \in 1 .. Len(results_list) : results_list[g].result = r})

\* the statistics a worker puts on stats_queue before it returns
stats(results_list) ==
    [total_games |-> Len(results_list),
     wins |-> count(results_list, RInt(1)),
     losses |-> count(results_list, RInt(-1)),
     draws |-> count(results_list, RInt(0))]

\* the for loop ends (range exhausted, or stop_event seen at its head) and
\* the worker returns its lists, after putting its statistics on the queue
WorkerReturn(w) ==
    LET wk == pool.workers[w]
    IN  /\ pool.pc = "running"
        /\ wk.pc = "between"
        /\ wk.game_no >= wk.games \/ pool.stop_event
        /\ pool' = [pool EXCEPT
                      !.workers[w].pc = "returned",
                      !.workers[w].st = stats(wk.results_list),
                      !.stats_queue = IF pool.variant = "self_play" THEN @
                                      ELSE @ \cup {[worker |-> w, error |-> FALSE]}]
        /\ UNCHANGED <<mctsVars, ev, mm, game, ex, enc>>

\* results of pool.map, in the order of args
results == [i \in WorkerIds |-> pool.workers[i].inputs_list]

RECURSIVE merge_reversed(_, _)
merge_reversed(res, n) ==
    IF n < 0 THEN <<>> ELSE res[n] \o merge_reversed(res, n - 1)

\* for res in results: inputs_list.extend(res[0]), over workers 0 .. n
RECURSIVE merge(_, _)
merge(res, n) ==
    IF n < 0 THEN <<>> ELSE merge(res, n - 1) \o res[n]

\* pool.map returns when every worker has ended; an exception of a worker is
\* raised again in the orchestrator, which then has no results to merge.
\* Otherwise the queue is drained (the training variant logs error records
\* and reports the others) and the results are merged.
JoinPool ==
    /\ pool.pc = "running"
    /\ \A w \in WorkerIds : pool.workers[w].pc \in {"returned", "raised"}
    /\ pool' = IF \E w \in WorkerIds : pool.workers[w].pc = "raised"
               THEN [pool EXCEPT !.pc = "raised"]
               ELSE [pool EXCEPT
                       !.pc = "merged",
                       !.stats_queue = {},
                       !.logged = IF pool.variant = "training"
                                  THEN {s \in pool.stats_queue : s.error} ELSE {},
                       !.reported = IF pool.variant = "training"
                                    THEN {s \in pool.stats_queue : ~s.error}
                                    ELSE pool.stats_queue,
                       !.merged = merge(results, pool.num_processes - 1)]
    /\ UNCHANGED <<mctsVars, ev, mm, game, ex, enc>>

NextPool ==
    \/ RequestStop
    \/ RequestPause
    \/ RequestResume
    \/ StartPool
    \/ \E w \in WorkerIds : LoadWeights(w)
    \/ \E w \in WorkerIds : BeginGame(w)
    \/ \E w \in WorkerIds : PlayPly(w)
    \/ \E w \in WorkerIds : WorkerReturn(w)
    \/ JoinPool

SpecPool == InitPool /\ [][NextPool]_vars

----------------------------------------------------------------------------
(* Extraction of training positions from the move list of a recorded game: *)
(* DataPreparationWorker._extract_move_data and DataPipeline.process_game.  *)
(* A sample is kept as the ply it was taken at and its policy target; the   *)
(* sample of the mirrored board is marked flipped.                          *)

Extractors == {"_extract_move_data", "process_game"}

\* chess.Move.null(), a move a recorded game can hold and the mapping has not
NullMove == Move(0, 0, None)

RecordedMoves == Range(GameMoves) \cup {NullMove}

RECURSIVE MoveLists(_)
MoveLists(n) ==
    IF n = 0 THEN {<<>>}
    ELSE LET shorter == MoveLists(n - 1)
         IN  shorter \cup {Append(l, mv) : l \in {s \in shorter : Len(s) = n - 1},
                                           mv \in RecordedMoves}

square_mirror(sq) == (LastRank - square_rank(sq)) * BoardDim + (sq % BoardDim)

flip_move(mv) == Move(square_mirror(mv.from_square), square_mirror(mv.to_square), mv.promotion)

Sample(ply, policy, flipped) == [ply |-> ply, policy |-> policy, flipped |-> flipped]

\* inputs.append / policy_targets.append for the board and, when the
\* mirrored move has an index, for the mirrored board
with_samples(inputs, ply, move) ==
    LET move_idx == get_index_by_move(move)
        flipped_move_idx == get_index_by_move(flip_move(move))
        own == Append(inputs, Sample(ply, move_idx, FALSE))
    IN  IF flipped_move_idx # NoIndex
        THEN Append(own, Sample(ply, flipped_move_idx, TRUE))
        ELSE own

\* the body of the loop of _extract_move_data for one move
extract_move(e, move) ==
    IF get_index_by_move(move) = NoIndex
    THEN [e EXCEPT !.i = e.i + 1, !.board = push(e.board, move)]
    ELSE [e EXCEPT !.i = e.i + 1,
                   !.inputs = with_samples(e.inputs, e.i, move),
                   !.board = push(e.board, move)]

\* the body of the loop of process_game for one move
process_move(e, move) ==
    IF move \notin Range(legal_moves(e.board))
    THEN [e EXCEPT !.pc = "done"]
    ELSE extract_move(e, move)

NewExtraction(fn, moves) ==
    [pc |-> "loop", fn |-> fn, moves |-> moves, i |-> 1, board |-> InitialBoard,
     inputs |-> <<>>]

InitExtract ==
    /\ NoMCTS
    /\ ev = Idle
    /\ mm = Idle
    /\ game = Idle
    /\ pool = Idle
    /\ ex \in {NewExtraction(fn, moves) : fn \in Extractors, moves \in MoveLists(MaxMoves)}
    /\ enc = Idle

\* one pass of the loop over the moves
ExtractMove ==
    /\ ex.pc = "loop"
    /\ ex.i <= Len(ex.moves)
    /\ ex' = IF ex.fn = "process_game" THEN process_move(ex, ex.moves[ex.i])
             ELSE extract_move(ex, ex.moves[ex.i])
    /\ UNCHANGED <<mctsVars, ev, mm, game, pool, enc>>

\* the moves are exhausted: the lists are returned
ExtractReturn ==
    /\ ex.pc = "loop"
    /\ ex.i > Len(ex.moves)
    /\ ex' = [ex EXCEPT !.pc = "done"]
    /\ UNCHANGED <<mctsVars, ev, mm, game, pool, enc>>

NextExtract ==
    \/ ExtractMove
    \/ ExtractReturn

SpecExtract == InitExtract /\ [][NextExtract]_vars

----------------------------------------------------------------------------
(* TreeNode on its own: a node and its children, with expand called on    *)
(* the node with any action_priors a caller can pass, the expansion of the *)
(* node as get_move_probs does it for a leaf, select called on the node,   *)
(* and update_recursive called on the node or a child.  ret holds the      *)
(* arguments and the result of the last call.                              *)

PriorValues == {RInt(0), Rat(1, 4), Rat(1, 2)}

\* the dicts a caller can pass to expand: the keys are the legal moves of a
\* position, in their order, and each has any of the priors
ActionPriors ==
    UNION {{[i \in 1 .. Len(keys) |-> Entry(keys[i], p[i])] :
               p \in [1 .. Len(keys) -> PriorValues]} :
           keys \in {legal_moves(b) : b \in AllBoards}}

\* a dict of one key
OneChild == {<<Entry(GameMoves[1], Rat(1, 2))>>}

LeafValues == {RInt(-1), RInt(1)}

\* the boards of the node: the initial position and the positions one move
\* after it, one of them game over
NodeBoards == {b \in AllBoards : Len(b) <= 1}

NewNode(n) ==
    /\ net = n
    /\ n_simulations = 0
    /\ nodes \in {<<TreeNode(None, RInt(1), b, NoMove)>> : b \in NodeBoards}
    /\ root = 1
    /\ lastOp = NoOp
    /\ ret = <<>>
    /\ err = "none"
    /\ evalCalls = 0
    /\ hist = [origin |-> "none", sims |-> 0, backups |-> <<>>]
    /\ ev = Idle
    /\ mm = Idle
    /\ game = Idle
    /\ pool = Idle
    /\ ex = Idle
    /\ enc = Idle

InitNode == \E n \in 1 .. NumNets : NewNode(n)

\* the heap h has room in the model
Fits(h) == Cardinality(DOMAIN h) <= MaxNodes

\* node.expand(action_priors), which leaves the heap g
Expand(id, action_priors) ==
    LET g == expand(nodes, id, action_priors)
    IN  /\ Fits(g)
        /\ nodes' = g
        /\ lastOp' = [NoOp EXCEPT !.op = "expand"]
        /\ ret' = <<[node |-> id, action_priors |-> action_priors]>>
        /\ UNCHANGED <<net, n_simulations, root, err, evalCalls, hist, ev, mm, game, pool, ex, enc>>

\* the statements of get_move_probs on the leaf it reached, from the call
\* of the evaluator, which returned pv, to the expansion
expand_leaf(h, id, pv) ==
    IF ~is_game_over(h[id].board) THEN expand(h, id, pv.action_probs) ELSE h

ExpandLeaf(id) ==
    LET pv == evaluate(nodes[id].board)
        g == expand_leaf(nodes, id, pv)
    IN  /\ nodes[id].children = <<>>
        /\ Fits(g)
        /\ nodes' = g
        /\ lastOp' = [NoOp EXCEPT !.op = "expand_leaf"]
        /\ ret' = <<[node |-> id, action_priors |-> pv.action_probs]>>
        /\ UNCHANGED <<net, n_simulations, root, err, evalCalls, hist, ev, mm, game, pool, ex, enc>>

\* node.select(c_puct)
Select(id) ==
    /\ nodes[id].children # <<>>
    /\ lastOp' = [NoOp EXCEPT !.op = "select"]
    /\ ret' = <<[node |-> id, best_node |-> select(nodes, id)]>>
    /\ UNCHANGED <<net, n_simulations, nodes, root, err, evalCalls, hist, ev, mm, game, pool, ex, enc>>

\* node.update_recursive(leaf_value); hist.backups lists the calls made
UpdateRecursive(id, leaf_value) ==
    /\ nodes[root].n_visits < MaxNodeVisits
    /\ nodes' = update_recursive(nodes, id, leaf_value)
    /\ lastOp' = [NoOp EXCEPT !.op = "update_recursive"]
    /\ ret' = <<[node |-> id, leaf_value |-> leaf_value]>>
    /\ hist' = [hist EXCEPT !.backups = Append(@, [node |-> id, leaf_value |-> leaf_value])]
    /\ UNCHANGED <<net, n_simulations, root, err, evalCalls, ev, mm, game, pool, ex, enc>>

\* expansions of a node
NextNode ==
    \/ \E action_priors \in ActionPriors : Expand(root, action_priors)
    \/ ExpandLeaf(root)

SpecNode == InitNode /\ [][NextNode]_vars

\* selections among the children of a node that get_move_probs expanded,
\* between backups through the node and its children
NextSelect ==
    \/ ExpandLeaf(root)
    \/ \E id \in DOMAIN nodes, action_priors \in OneChild : Expand(id, action_priors)
    \/ Select(root)
    \/ \E id \in DOMAIN nodes, leaf_value \in LeafValues : UpdateRecursive(id, leaf_value)

SpecSelect == InitNode /\ [][NextSelect]_vars

----------------------------------------------------------------------------
(* convert_single_board (chess_utils.py): one board as a 64 x 18 array.    *)
(* A board is what the function reads of it: the pieces on their squares,  *)
(* the side to move, the en-passant square and the four castling rights.   *)

BOARD_SQUARES == 64
PLANES == 18

square(file, rank) == rank * 8 + file

\* board.ep_square is None or a square of the third or the sixth rank
EpSquares == {square(f, r) : f \in 0 .. (MaxEpFiles - 1), r \in {2, 5}}

\* piece placements: a piece is [piece_type, color], piece_type in 1 .. 6
\* (chess.PAWN .. chess.KING)
Piece(piece_type, color) == [piece_type |-> piece_type, color |-> color]
Placements ==
    {[s \in {4, 60} |-> IF s = 4 THEN Piece(6, WHITE) ELSE Piece(6, BLACK)],
     [s \in {4, 12, 52, 60} |->
        IF s = 4 THEN Piece(6, WHITE) ELSE IF s = 12 THEN Piece(1, WHITE)
        ELSE IF s = 52 THEN Piece(1, BLACK) ELSE Piece(6, BLACK)]}

EncBoards ==
    [pieces : Placements, turn : BOOLEAN, ep_square : {None} \cup EpSquares,
     wk : BOOLEAN, wq : BOOLEAN, bk : BOOLEAN, bq : BOOLEAN]

\* the dict piece_map of convert_single_board
piece_plane(p) == IF p.color = WHITE THEN p.piece_type - 1 ELSE p.piece_type + 5

\* convert_single_board(b): x[s, i] for every square s and plane i
convert_single_board(b) ==
    [c \in (0 .. (BOARD_SQUARES - 1)) \X (0 .. (PLANES - 1)) |->
        LET s == c[1]
            i == c[2]
        IN  IF i < 12 THEN (IF s \in DOMAIN b.pieces /\ piece_plane(b.pieces[s]) = i
                            THEN 1 ELSE 0)
            ELSE IF i = 12 THEN (IF b.turn THEN 1 ELSE 0)
            ELSE IF i = 13 THEN (IF b.ep_square # None /\ s = b.ep_square THEN 1 ELSE 0)
            ELSE IF i = 14 THEN (IF b.wk THEN 1 ELSE 0)
            ELSE IF i = 15 THEN (IF b.wq THEN 1 ELSE 0)
            ELSE IF i = 16 THEN (IF b.bk THEN 1 ELSE 0)
            ELSE (IF b.bq THEN 1 ELSE 0)]

InitEncode ==
    /\ NoMCTS
    /\ ev = Idle
    /\ mm = Idle
    /\ game = Idle
    /\ pool = Idle
    /\ ex = Idle
    /\ enc \in {[pc |-> "call", b |-> b, x |-> <<>>] : b \in EncBoards}

ConvertSingleBoard ==
    /\ enc.pc = "call"
    /\ enc' = [enc EXCEPT !.pc = "returned", !.x = convert_single_board(enc.b)]
    /\ UNCHANGED <<mctsVars, ev, mm, game, pool, ex>>

NextEncode == ConvertSingleBoard

SpecEncode == InitEncode /\ [][NextEncode]_vars

----------------------------------------------------------------------------
(* Properties of the search tree *)

ChildVisits(h, id) == [i \in 1 .. Len(h[id].children) |-> h[h[id].children[i].id].n_visits]
ChildIds(h, id) == {h[id].children[i].id : i \in 1 .. Len(h[id].children)}

\* a node and everything below it, as a value without object identities
RECURSIVE TreeVal(_, _)
TreeVal(h, id) ==
    [n_visits |-> h[id].n_visits, Q |-> h[id].Q, P |-> h[id].P,
     board |-> h[id].board, move |-> h[id].move,
     children |-> [i \in 1 .. Len(h[id].children) |->
                     [mv |-> h[id].children[i].mv,
                      node |-> TreeVal(h, h[id].children[i].id)]]]

One == Prob(1, 0, <<0>>)
Zero == Prob(0, 0, <<0>>)

\* the probability p = c * x^k / (x^z[1] + ... + x^z[n]) equals a / b.  x is
\* transcendental, so b * c * x^k = a * (x^z[1] + ... + x^z[n]) holds exactly
\* when both sides have the same coefficient at every power of x.
ProbEq(p, a, b) ==
    \A d \in {p.k} \cup Range(p.z) :
        (IF d = p.k THEN b * p.c ELSE 0) = a * Cardinality({j \in 1 .. Len(p.z) : p.z[j] = d})

\* C1: every get_move_probs call makes exactly n_simulations evaluations and
\* raises the root's n_visits by exactly n_simulations; while the root is one
\* that set_root_node created and expanded, its n_visits and the sum of its
\* children's n_visits both equal the number of simulations run on it.
C1_Step ==
    /\ (lastOp'.op = "get_move_probs" /\ root # None) =>
          /\ err' = "none"
          /\ evalCalls' = n_simulations
          /\ nodes'[root'].n_visits = nodes[root].n_visits + n_simulations
    /\ (root' # None /\ hist'.origin = "set_root_node" /\ nodes'[root'].children # <<>>) =>
          /\ nodes'[root'].n_visits = hist'.sims
          /\ SumSeq(ChildVisits(nodes', root')) = hist'.sims

C1_VisitConservation == [][C1_Step]_vars

C1_Witness ==
    /\ lastOp.op = "get_move_probs"
    /\ root # None
    /\ hist.origin = "set_root_node"
    /\ hist.sims >= 2
    /\ nodes[root].n_visits = hist.sims
    /\ Len(nodes[root].children) >= 2

\* C2: in a finished game that ended in checkmate, every recorded position
\* with the mating side to move is labelled +1 and every recorded position
\* with the mated side to move is labelled -1, whichever colour gave the mate.
C2_OutcomeLabels ==
    (game.pc = "done" /\ is_checkmate(game.board)) =>
        \A i \in 1 .. Len(game.winners) :
            game.winners[i] = IF game.current_players[i] = ~turn(game.board)
                              THEN RInt(1) ELSE RInt(-1)

\* the same statement for the games White won
WhiteMateLabels ==
    (game.pc = "done" /\ is_checkmate(game.board) /\ turn(game.board) = BLACK) =>
        \A i \in 1 .. Len(game.winners) :
            game.winners[i] = IF game.current_players[i] = WHITE THEN RInt(1) ELSE RInt(-1)

\* the outcome of a finished game for the side to move
SideToMoveOutcome(b) == IF is_checkmate(b) THEN RInt(-1) ELSE RInt(0)

\* C3: a game-over leaf is scored with the exact outcome for the side to move
\* at the leaf (-1 if it is checkmated, 0 for a draw), whichever colour that
\* is; the backup stores the negated value, so a visited game-over leaf has
\* Q = 1 if the side to move is checkmated and Q = 0 for a draw.
C3_TerminalLeafValue ==
    \A id \in DOMAIN nodes :
        (is_game_over(nodes[id].board) /\ nodes[id].children = <<>> /\ nodes[id].n_visits > 0)
            => nodes[id].Q = RNeg(SideToMoveOutcome(nodes[id].board))

\* C4: update_with_move for a move that is a key of root.children makes that
\* child the root with its statistics, prior, board and whole subtree
\* unchanged, clears its parent reference and calls the evaluator not at all.
C4_Step ==
    (lastOp'.op = "update_with_move" /\ root # None /\ HasChild(nodes[root], lastOp'.move)) =>
        /\ err' = "none"
        /\ TreeVal(nodes', root') = TreeVal(nodes, ChildId(nodes[root], lastOp'.move))
        /\ nodes'[root'].parent = None
        /\ evalCalls' = 0

C4_TreeReuse == [][C4_Step]_vars

C4_Witness ==
    /\ lastOp.op = "update_with_move"
    /\ err = "none"
    /\ evalCalls = 0
    /\ nodes[root].n_visits > 0
    /\ nodes[root].children # <<>>

\* C5: set_root_node(board), and update_with_move for a move that is no key of
\* root.children, leave a root with n_visits = 0, Q = 0, no parent and the
\* given (resulting) board, whose children come from exactly one evaluator
\* call: one unvisited leaf per legal move, none for a position without legal
\* moves, and no error.  No node of the previous tree stays alive.
C5_Step ==
    LET fresh == \/ lastOp'.op = "set_root_node"
                 \/ /\ lastOp'.op = "update_with_move"
                    /\ root # None
                    /\ ~HasChild(nodes[root], lastOp'.move)
        b == IF lastOp'.op = "set_root_node" THEN lastOp'.board
             ELSE push(nodes[root].board, lastOp'.move)
        r == nodes'[root']
    IN  fresh =>
          /\ err' = "none"
          /\ evalCalls' = 1
          /\ r.n_visits = 0 /\ r.Q = RInt(0) /\ r.parent = None /\ r.board = b
          /\ Keys(r.children) = legal_moves(b)
          /\ DOMAIN nodes' = {root'} \cup ChildIds(nodes', root')
          /\ \A c \in ChildIds(nodes', root') :
                /\ nodes'[c].n_visits = 0
                /\ nodes'[c].children = <<>>
                /\ nodes'[c].parent = root'

C5_FreshRoot == [][C5_Step]_vars

C5_Witness ==
    /\ lastOp.op = "update_with_move"
    /\ err = "none"
    /\ evalCalls = 1
    /\ Len(nodes[root].board) >= 2
    /\ nodes[root].children # <<>>

\* C6: with temperature <= 1e-3 and a root that has children, get_move_probs
\* gives probability 1 to exactly one child and 0 to every other; that child
\* has maximal n_visits and is the first such child in iteration order.
C6_TemperatureCollapse ==
    (/\ lastOp.op = "get_move_probs" /\ root # None /\ err = "none"
     /\ RLeq(lastOp.temperature, THRESHOLD)
     /\ nodes[root].children # <<>>) =>
        LET v == ChildVisits(nodes, root)
        IN  /\ Keys(ret) = Keys(nodes[root].children)
            /\ \E i \in 1 .. Len(ret) :
                  /\ ret[i].p = One
                  /\ \A j \in 1 .. Len(ret) : j # i => ret[j].p = Zero
                  /\ \A j \in 1 .. Len(ret) : v[j] <= v[i]
                  /\ \A j \in 1 .. (i - 1) : v[j] < v[i]

C6_Witness ==
    /\ lastOp.op = "get_move_probs" /\ root # None /\ err = "none"
    /\ RLeq(lastOp.temperature, THRESHOLD)
    /\ LET v == ChildVisits(nodes, root)
       IN  \E i, j \in 1 .. Len(v) : i < j /\ v[i] = v[j] /\ v[i] > 0 /\ v[i] = MaxSeq(v)

\* C7: at temperature 1 get_move_probs gives each root child the probability
\* n_visits(child) / sum of the children's n_visits (so 0 to an unvisited
\* child).
C7_VisitProportional ==
    (/\ lastOp.op = "get_move_probs" /\ root # None /\ err = "none"
     /\ lastOp.temperature = <<1, 1>>
     /\ nodes[root].children # <<>>
     /\ SumSeq(ChildVisits(nodes, root)) > 0) =>
        LET v == ChildVisits(nodes, root)
        IN  /\ Keys(ret) = Keys(nodes[root].children)
            /\ \A i \in 1 .. Len(ret) : ProbEq(ret[i].p, v[i], SumSeq(v))

\* C8: when the root has no children after the simulations, get_move_probs
\* returns the empty mapping and raises nothing, at every temperature.
C8_EmptyRoot ==
    (lastOp.op = "get_move_probs" /\ root # None /\ nodes[root].children = <<>>) =>
        (ret = <<>> /\ err = "none")

C8_Witness ==
    /\ lastOp.op = "get_move_probs" /\ root # None
    /\ nodes[root].children = <<>>
    /\ nodes[root].n_visits > 0
    /\ RLess(THRESHOLD, lastOp.temperature)
    /\ legal_moves(nodes[root].board) = <<>>
    /\ err = "none"

----------------------------------------------------------------------------
(* Properties of the evaluators *)

ProbValues(d) == [i \in 1 .. Len(d) |-> d[i].p]

\* the returned mapping has exactly the legal moves as keys, gives each one a
\* probability above 0, and the probabilities sum to 1
ProbabilityMapping(res, legal) ==
    /\ Keys(res.action_probs) = legal
    /\ \A i \in 1 .. Len(res.action_probs) : RLess(RInt(0), res.action_probs[i].p)
    /\ RSumSeq(ProbValues(res.action_probs)) = RInt(1)

\* C9: for a board with at least one legal move and any network output, both
\* MCTS._policy_value_fn and the workers' policy_value_fn return a mapping over
\* exactly the legal moves, every probability above 0, summing to 1.
C9_EvaluatorInvariant ==
    (ev.pc \in {"MCTS._policy_value_fn", "policy_value_fn"} /\ Len(ev.legal) >= 1)
        => ProbabilityMapping(ev.res, ev.legal)

\* the same statement for MCTS._policy_value_fn alone
MCTSEvaluatorInvariant ==
    (ev.pc = "MCTS._policy_value_fn" /\ Len(ev.legal) >= 1)
        => ProbabilityMapping(ev.res, ev.legal)

----------------------------------------------------------------------------
(* Properties of the move mapping *)

\* a move between two different squares that promotes, if it does, to one of
\* the four pieces on the first or the last rank
WellFormed(mv) ==
    /\ mv.from_square \in SQUARES
    /\ mv.to_square \in SQUARES
    /\ mv.from_square # mv.to_square
    /\ \/ mv.promotion = None
       \/ /\ mv.promotion \in {KNIGHT, BISHOP, ROOK, QUEEN}
          /\ square_rank(mv.to_square) \in {0, LastRank}

Indices == 0 .. (TOTAL_MOVES - 1)

\* the tables of the object: indices without gaps, the round trip, no index
\* shared by two moves, an index for every well-formed move
BijectiveTables ==
    /\ MappedIndices = Indices
    /\ \A i \in Indices : get_index_by_move(get_move_by_index(i)) = i
    /\ Cardinality({INDEX_MAPPING[mv] : mv \in MappedMoves}) = Cardinality(MappedMoves)
    /\ \A mv \in CandidateMoves : WellFormed(mv) => get_index_by_move(mv) \in Indices

\* C10: MoveMapping numbers the moves 0 .. TOTAL_MOVES-1 without gaps,
\* get_index_by_move(get_move_by_index(i)) = i for every index, no two moves
\* share an index, and every well-formed move has an index; a query answers
\* accordingly.
C10_MoveMappingBijection ==
    /\ mm.pc = "built" /\ mm.q.op = "none" => BijectiveTables
    /\ mm.pc = "built" /\ mm.q.op = "get_move_by_index" /\ mm.q.i \in Indices
          => /\ mm.q.mv # NoMove
             /\ get_index_by_move(mm.q.mv) = mm.q.i
    /\ mm.pc = "built" /\ mm.q.op = "get_index_by_move" /\ WellFormed(mm.q.mv)
          => /\ mm.q.i \in Indices
             /\ get_move_by_index(mm.q.i) = mm.q.mv

\* a promotion to the first rank was looked up and has an index
C10_Witness ==
    /\ mm.pc = "built"
    /\ mm.q.op = "get_index_by_move"
    /\ mm.q.mv.promotion = QUEEN
    /\ square_rank(mm.q.mv.to_square) = 0
    /\ mm.q.i \in Indices

----------------------------------------------------------------------------
(* Properties of an iteration of self-play *)

Workers == DOMAIN pool.workers

\* C11: once the args are built, worker i of W has been given
\* floor(G / W) games plus one more when i < G mod W, for G requested games,
\* in each of the three orchestrators.
C11_GamePartition ==
    pool.pc # "idle" =>
        \A i \in Workers :
            pool.workers[i].games =
                (pool.num_games_per_iteration \div pool.num_processes)
                + (IF i < pool.num_games_per_iteration % pool.num_processes THEN 1 ELSE 0)

\* C12: after the orchestrator's stop signal is set, no worker starts
\* another game: a worker never begins a game while the signal is set.
C12_StopReachesWorkers ==
    \A w \in Workers : ~pool.workers[w].late_start

Ends == {"game_over", "ply_cap", "empty"}

\* the positions of the first n games of worker w, each from its first to
\* its last ply
RECURSIVE WholeGames(_, _, _)
WholeGames(w, results_list, n) ==
    IF n = 0 THEN <<>>
    ELSE WholeGames(w, results_list, n - 1)
         \o [k \in 1 .. results_list[n].game_length |-> Position(w, n - 1, k - 1)]

\* C13: at every moment, and so when the worker returns, stopped or not,
\* the positions a worker has collected are those of whole games, each of
\* which left its loop because the game was over, the ply cap was reached
\* or there was no move to play.
C13_NoPartialGames ==
    \A w \in Workers :
        LET wk == pool.workers[w]
        IN  /\ \A g \in 1 .. Len(wk.results_list) : wk.results_list[g].end \in Ends
            /\ wk.inputs_list = WholeGames(w, wk.results_list, Len(wk.results_list))

\* a worker returned two games, one of them cut by the ply cap, while the
\* orchestrator's stop signal was set
C13_Witness ==
    \E w \in Workers :
        LET wk == pool.workers[w]
        IN  /\ wk.pc = "returned"
            /\ pool.stop_set
            /\ Len(wk.results_list) = 2
            /\ \E g \in 1 .. 2 : wk.results_list[g].end = "ply_cap"
            /\ Len(wk.inputs_list) > MaxPoolPly

\* C14: every ply of a game is decided after a check of the pause signal
\* made since the ply before it.
C14_PauseBetweenMoves ==
    \A w \in Workers : ~pool.workers[w].moved_unchecked

\* C15: a worker in which an exception was raised has returned empty
\* lists, an error record of it is on the stats channel (or was logged from
\* it), and the orchestrator still merges the results.
C15_FailureIsolation ==
    \A w \in Workers :
        pool.workers[w].failed =>
            /\ pool.workers[w].pc = "returned"
            /\ pool.workers[w].inputs_list = <<>>
            /\ [worker |-> w, error |-> TRUE] \in pool.stats_queue \cup pool.logged
            /\ pool.pc # "raised"

\* the number of positions returned by the workers before worker i
RECURSIVE Offset(_)
Offset(i) == IF i = 0 THEN 0 ELSE Offset(i - 1) + Len(pool.workers[i - 1].inputs_list)

\* C16: the merged batch is empty until the orchestrator has joined every
\* worker, and is then the workers' position lists one after another in
\* the order of the workers: position j of worker i is at place
\* Offset(i) + j and there is no other place.
C16_SynchronousMerge ==
    /\ pool.pc # "merged" => pool.merged = <<>>
    /\ pool.pc = "merged" =>
         /\ \A w \in Workers : pool.workers[w].pc = "returned"
         /\ Len(pool.merged) = Offset(pool.num_processes)
         /\ \A i \in Workers :
              \A j \in 1 .. Len(pool.workers[i].inputs_list) :
                  pool.merged[Offset(i) + j] = pool.workers[i].inputs_list[j]

\* two workers returned positions, and they were merged
C16_Witness ==
    /\ pool.pc = "merged"
    /\ pool.num_processes = 2
    /\ \A w \in Workers : pool.workers[w].inputs_list # <<>>
    /\ Len(pool.workers[0].inputs_list) # Len(pool.workers[1].inputs_list)

----------------------------------------------------------------------------
(* Properties of the labels of a self-play game *)

EmptyDistributionEnd ==
    /\ game.pc = "done"
    /\ ~is_game_over(game.board)
    /\ Len(game.winners) >= 1

DrawEnd ==
    /\ game.pc = "done"
    /\ Status(game.board) \in {"stalemate", "draw_rule"}
    /\ Len(game.winners) >= 1

----------------------------------------------------------------------------
(* Properties of the extraction *)

\* the board before move k of the list
BoardBefore(moves, k) == SubSeq(moves, 1, k - 1)

\* move k of the list is illegal where it is played, or has no index
LeftOut(moves, k) ==
    \/ moves[k] \notin Range(legal_moves(BoardBefore(moves, k)))
    \/ get_index_by_move(moves[k]) = NoIndex

\* C18: when the extraction of a move list has ended, every move of the
\* list has been applied to the board, and the positions that have a sample
\* are exactly those whose move is legal there and has an index: a move
\* that is illegal or without index costs its own position only.
C18_ExtractionTolerance ==
    ex.pc = "done" =>
        /\ ex.board = ex.moves
        /\ {ex.inputs[j].ply : j \in 1 .. Len(ex.inputs)}
             = {k \in 1 .. Len(ex.moves) : ~LeftOut(ex.moves, k)}

----------------------------------------------------------------------------
(* Properties of TreeNode *)

\* the keys of action_priors with a prior above 0
PositivePriors(action_priors) ==
    {action_priors[i].mv : i \in {j \in 1 .. Len(action_priors) :
                                     RLess(RInt(0), action_priors[j].p)}}

\* the step from heap h to heap g added to node id one fresh child for
\* every key of action_priors with a positive prior that was no child yet,
\* and changed nothing else
Expanded(h, g, id, action_priors) ==
    LET old == h[id].children
        new == g[id].children
    IN  /\ DOMAIN h \subseteq DOMAIN g
        /\ \A k \in DOMAIN h \ {id} : g[k] = h[k]
        /\ g[id] = [h[id] EXCEPT !.children = new]
        /\ Len(new) >= Len(old)
        /\ SubSeq(new, 1, Len(old)) = old
        /\ KeySet(new) = KeySet(old) \cup PositivePriors(action_priors)
        /\ Cardinality(KeySet(new)) = Len(new)
        /\ Cardinality(DOMAIN g) = Cardinality(DOMAIN h) + Len(new) - Len(old)
        /\ \A j \in (Len(old) + 1) .. Len(new) :
              /\ new[j].id \in DOMAIN g \ DOMAIN h
              /\ g[new[j].id] = [parent |-> id, children |-> <<>>, n_visits |-> 0,
                                 Q |-> RInt(0), P |-> Lookup(action_priors, new[j].mv),
                                 board |-> push(h[id].board, new[j].mv),
                                 move |-> new[j].mv]

C19_Step ==
    /\ lastOp'.op = "expand" =>
          Expanded(nodes, nodes', ret'[1].node, ret'[1].action_priors)
    /\ lastOp'.op = "expand_leaf" =>
          IF is_game_over(nodes[ret'[1].node].board) THEN nodes' = nodes
          ELSE /\ Expanded(nodes, nodes', ret'[1].node, ret'[1].action_priors)
               /\ KeySet(nodes'[ret'[1].node].children)
                    = Range(legal_moves(nodes[ret'[1].node].board))

\* C19: a call of expand adds to the node, in the one step, a child for
\* each key of action_priors whose prior is above 0 and that is no child
\* yet, and no child for a prior of 0; the children the node had stay as
\* they were; a new child has n_visits = 0, Q = 0 and the prior as P.  When
\* get_move_probs expands a leaf that is not game over, the keys of the
\* leaf's children are then the legal moves of its board.
C19_Expansion == [][C19_Step]_vars

\* expand was called on a node that had a child, with a dict holding that
\* child's key, a key of prior 0 and a new key of positive prior
C19_Witness ==
    /\ lastOp.op = "expand"
    /\ \E i, j, k \in 1 .. Len(ret[1].action_priors) :
          LET ap == ret[1].action_priors
              ch == nodes[ret[1].node].children
          IN  /\ ap[i].p = RInt(0)
              /\ ~HasChild(nodes[ret[1].node], ap[i].mv)
              /\ Len(ch) = 2
              /\ ap[j].mv = ch[1].mv
              /\ nodes[ch[1].id].P # ap[j].p
              /\ ap[k].mv = ch[2].mv
              /\ nodes[ch[2].id].P = ap[k].p

\* get_move_probs expanded a leaf that is not game over
ExpandedLeaf ==
    /\ lastOp.op = "expand_leaf"
    /\ ~is_game_over(nodes[ret[1].node].board)
    /\ nodes[ret[1].node].children # <<>>

\* the value of the child of index i of node id, Q + c_puct * P *
\* sqrt(parent.n_visits) / (1 + n_visits), kept as q + w * sqrt(N)
ChildValue(id, i) ==
    LET child == nodes[nodes[id].children[i].id]
    IN  [q |-> child.Q, w |-> RDiv(RMul(c_puct, child.P), RInt(1 + child.n_visits))]

\* the value of child i of node id is above that of child j
Above(id, i, j) ==
    LET N == nodes[id].n_visits
        a == ChildValue(id, i)
        b == ChildValue(id, j)
    IN  IF N = 0 THEN RLess(b.q, a.q)
        ELSE IF N = 1 THEN RLess(RAdd(b.q, b.w), RAdd(a.q, a.w))
        ELSE IF N = 4 THEN RLess(RAdd(b.q, RMul(RInt(2), b.w)), RAdd(a.q, RMul(RInt(2), a.w)))
        ELSE ValueGreater(a, b, N)

\* the index of the selected child among the children of node id
SelectedIndex(id, best_node) ==
    CHOOSE i \in 1 .. Len(nodes[id].children) : nodes[id].children[i].id = best_node

\* C20: the child select returns is a child of the node, no child has a
\* value above its value, and every child before it in the order of
\* children has a smaller value; with a parent of zero visits and Q = 0 in
\* every child it is the first child.
C20_Selection ==
    lastOp.op = "select" =>
        LET id == ret[1].node
            children == nodes[id].children
        IN  /\ \E i \in 1 .. Len(children) : children[i].id = ret[1].best_node
            /\ LET s == SelectedIndex(id, ret[1].best_node)
               IN  /\ \A j \in 1 .. Len(children) : ~Above(id, j, s)
                   /\ \A j \in 1 .. (s - 1) : Above(id, s, j)
                   /\ (nodes[id].n_visits = 0
                        /\ \A j \in 1 .. Len(children) : nodes[children[j].id].Q = RInt(0))
                       => s = 1

\* select returned the second child, whose value is above the first's, on
\* a visited parent
C20_Witness ==
    /\ lastOp.op = "select"
    /\ nodes[ret[1].node].n_visits > 0
    /\ Len(nodes[ret[1].node].children) >= 2
    /\ SelectedIndex(ret[1].node, ret[1].best_node) = 2

\* select returned the first of two children of equal value
SelectedFirstOfEqual ==
    /\ lastOp.op = "select"
    /\ Len(nodes[ret[1].node].children) >= 2
    /\ SelectedIndex(ret[1].node, ret[1].best_node) = 1
    /\ ~Above(ret[1].node, 1, 2)
    /\ ~Above(ret[1].node, 2, 1)

----------------------------------------------------------------------------
(* Properties of the backup *)

\* the number of plies from node id up to node k, or -1 when k is neither
\* id nor an ancestor of id
RECURSIVE PliesAbove(_, _)
PliesAbove(k, id) ==
    IF id = k THEN 0
    ELSE IF nodes[id].parent = None THEN -1
    ELSE LET d == PliesAbove(k, nodes[id].parent)
         IN  IF d < 0 THEN -1 ELSE d + 1

\* the backups that went through node k
Through(k) ==
    {i \in 1 .. Len(hist.backups) : PliesAbove(k, hist.backups[i].node) >= 0}

\* the value node k is fed by backup i: the leaf's value, negated at
\* every ply above the leaf
Fed(k, i) ==
    IF PliesAbove(k, hist.backups[i].node) % 2 = 0
    THEN hist.backups[i].leaf_value
    ELSE RNeg(hist.backups[i].leaf_value)

RECURSIVE SumFed(_, _)
SumFed(k, i) ==
    IF i = 0 THEN RInt(0)
    ELSE RAdd(SumFed(k, i - 1), IF i \in Through(k) THEN Fed(k, i) ELSE RInt(0))

\* C21: the n_visits of a node is the number of backups that started at
\* the node or below it, and its Q is the mean of the values those backups
\* fed it, the value of a backup changing sign at every ply on its way up
\* (Q is 0 before the first of them).
C21_Backup ==
    \A k \in DOMAIN nodes :
        /\ nodes[k].n_visits = Cardinality(Through(k))
        /\ RMul(nodes[k].Q, RInt(nodes[k].n_visits)) = SumFed(k, Len(hist.backups))
        /\ nodes[k].n_visits = 0 => nodes[k].Q = RInt(0)

\* two backups went through the root, one from a child and one from a
\* child of that child, and left the root a mean other than 0
C21_Witness ==
    /\ Len(hist.backups) = 2
    /\ PliesAbove(root, hist.backups[1].node) = 1
    /\ PliesAbove(root, hist.backups[2].node) = 2
    /\ nodes[root].n_visits = 2
    /\ nodes[root].Q # RInt(0)
    /\ nodes[hist.backups[2].node].Q = hist.backups[2].leaf_value

----------------------------------------------------------------------------
(* Properties of the simulations *)

C22_Step ==
    (lastOp'.op = "get_move_probs" /\ root # None) =>
        \A i \in 1 .. n_simulations :
            Status(evaluated(nodes, root, n_simulations)[i]) \notin {"checkmate", "stalemate"}

\* C22: no simulation of a call of get_move_probs passes a checkmate or
\* stalemate position to the evaluator.
C22_NoTerminalEvaluation == [][C22_Step]_vars

----------------------------------------------------------------------------
(* Properties of the records of a self-play game *)

\* the row a distribution d stands for: d's probability at the index of
\* each of its keys, 0 (no entry) at every other index of 0 .. TOTAL_MOVES - 1
RowOf(d) ==
    [i \in {get_index_by_move(d[k].mv) : k \in 1 .. Len(d)} |->
        Lookup(d, get_move_by_index(i))]

\* C23: the position recorded at ply i is the board before the move of
\* ply i; and when a ply has been played, with ret the distribution
\* get_move_probs returned for it, the row recorded for the ply is the row
\* of ret, whatever move was drawn, its indices are below total_moves, and
\* the move played is a key of ret.
C23_PolicyLabel ==
    game.pc \in {"playing", "done"} =>
        /\ Len(game.states) = Len(game.mcts_probs)
        /\ \A i \in 1 .. Len(game.states) : game.states[i] = SubSeq(game.board, 1, i - 1)
        /\ lastOp.op = "update_with_move" =>
              /\ game.mcts_probs[Len(game.mcts_probs)] = RowOf(ret)
              /\ DOMAIN RowOf(ret) \subseteq 0 .. (TOTAL_MOVES - 1)
              /\ Cardinality(DOMAIN RowOf(ret)) = Len(ret)
              /\ game.board[Len(game.board)] \in KeySet(ret)

\* a second ply was played from a distribution of several keys, and the
\* move drawn was not the first key
C23_Witness ==
    /\ game.pc = "playing"
    /\ lastOp.op = "update_with_move"
    /\ Len(game.states) = 2
    /\ Len(ret) >= 2
    /\ game.board[Len(game.board)] # ret[1].mv

\* C24: a game loop makes at most max_moves passes (MaxPoolPly here): the
\* game being played has at most that many plies and recorded positions,
\* and every finished game reports a length of at most that many, also when
\* the game never became over.
C24_PlyCap ==
    \A w \in Workers :
        LET wk == pool.workers[w]
        IN  /\ wk.move_count <= MaxPoolPly
            /\ Len(wk.states) <= MaxPoolPly
            /\ \A g \in 1 .. Len(wk.results_list) :
                  wk.results_list[g].game_length <= MaxPoolPly

\* a game that never became over left its loop at the cap, with as many
\* plies as the cap allows
C24_Witness ==
    \E w \in Workers :
        LET wk == pool.workers[w]
        IN  /\ wk.results_list # <<>>
            /\ wk.results_list[1].end = "ply_cap"
            /\ wk.results_list[1].game_length = MaxPoolPly
            /\ ~wk.over

----------------------------------------------------------------------------
(* Properties of the shape of the tree *)

\* the board of every node at or below id, with the moves that lead to it
RECURSIVE Boards(_, _, _)
Boards(h, id, path) ==
    {<<path, h[id].board>>}
      \cup UNION {Boards(h, h[id].children[i].id, Append(path, h[id].children[i].mv)) :
                    i \in 1 .. Len(h[id].children)}

\* the root has no parent, and every entry of a children dict leads to a
\* node whose parent is the dict's owner, whose move is the entry's key and
\* whose board is the owner's board after that move
Ownership ==
    root # None =>
        /\ nodes[root].parent = None
        /\ \A n \in DOMAIN nodes : \A i \in 1 .. Len(nodes[n].children) :
              LET c == nodes[n].children[i]
              IN  /\ c.id \in DOMAIN nodes
                  /\ nodes[c.id].parent = n
                  /\ nodes[c.id].move = c.mv
                  /\ nodes[c.id].board = push(nodes[n].board, c.mv)

\* a search keeps the board of every node it finds in the tree
C25_Step ==
    (lastOp'.op = "get_move_probs" /\ root # None) =>
        Boards(nodes, root, <<>>) \subseteq Boards(nodes', root', <<>>)

\* C25: after any sequence of set_root_node, get_move_probs and
\* update_with_move the root has no parent and every child has its parent's
\* reference, its key as move and its parent's board with that move applied;
\* and a search changes the board of no node of the tree.
C25_TreeStructure == []Ownership /\ [][C25_Step]_vars

\* the tree was re-rooted at a child and searched again, and the new root
\* has children
C25_Witness ==
    /\ root # None
    /\ hist.origin = "child"
    /\ hist.sims > 0
    /\ lastOp.op = "get_move_probs"
    /\ nodes[root].children # <<>>

----------------------------------------------------------------------------
(* Properties of the board encoding *)

\* plane i of x holds one value on all squares
ConstantPlane(x, i) ==
    \A s, t \in 0 .. (BOARD_SQUARES - 1) : x[<<s, i>>] = x[<<t, i>>]

\* C26: in the array convert_single_board returns, the side-to-move plane
\* (12), the en-passant plane (13) and the four castling planes (14 .. 17)
\* each hold one value on all 64 squares, and the en-passant plane of a
\* board without en-passant square is all zero.
C26_FlagPlanes ==
    enc.pc = "returned" =>
        /\ \A i \in 12 .. 17 : ConstantPlane(enc.x, i)
        /\ enc.b.ep_square = None =>
              \A s \in 0 .. (BOARD_SQUARES - 1) : enc.x[<<s, 13>>] = 0

----------------------------------------------------------------------------
(* Properties of the tree of a self-play game *)

\* C27: during a self-play game the board of the tree's root is the game
\* board: after set_root_node at the start, and after every ply, that is
\* board.push(move) followed by update_with_move(move), whichever branch
\* update_with_move took.
C27_TreeFollowsGame ==
    game.pc \in {"playing", "done"} =>
        /\ root # None
        /\ nodes[root].board = game.board
        /\ nodes[root].parent = None

\* two plies were played and the tree was re-rooted at a child of the root
C27_Witness ==
    /\ game.pc = "playing"
    /\ lastOp.op = "update_with_move"
    /\ hist.origin = "child"
    /\ Len(game.board) = 2
    /\ nodes[root].move = game.board[2]

\* the visits of a node that are not visits of one of its children
OwnVisits(k) == nodes[k].n_visits - SumSeq(ChildVisits(nodes, k))

\* C28: a node with children has as many visits as its children together
\* when it is the root set_root_node created and expanded, and one more
\* when it was expanded during a simulation; and no child has more visits
\* than its parent.
C28_VisitAccounting ==
    \A k \in DOMAIN nodes :
        nodes[k].children # <<>> =>
            /\ OwnVisits(k) = IF k = root /\ hist.origin = "set_root_node" THEN 0 ELSE 1
            /\ \A i \in 1 .. Len(nodes[k].children) :
                  nodes[nodes[k].children[i].id].n_visits <= nodes[k].n_visits

\* a root made by set_root_node has a child that a simulation expanded and
\* that a later simulation went through
C28_Witness ==
    /\ root # None
    /\ hist.origin = "set_root_node"
    /\ \E i \in 1 .. Len(nodes[root].children) :
          LET c == nodes[root].children[i].id
          IN  /\ nodes[c].children # <<>>
              /\ nodes[c].n_visits >= 2
              /\ nodes[c].n_visits < nodes[root].n_visits

\* update_with_move for a key of root.children whose node was never visited
ToUnvisitedChild ==
    /\ lastOp'.op = "update_with_move"
    /\ root # None
    /\ HasChild(nodes[root], lastOp'.move)
    /\ nodes[ChildId(nodes[root], lastOp'.move)].n_visits = 0

\* the first get_move_probs on a root that was such a child
FirstSearchOfUnvisited ==
    /\ lastOp'.op = "get_move_probs"
    /\ root # None
    /\ hist.origin = "child"
    /\ hist.sims = 0
    /\ nodes[root].n_visits = 0
    /\ n_simulations >= 1
    /\ ~is_game_over(nodes[root].board)

C29_Step ==
    /\ ToUnvisitedChild =>
          /\ err' = "none"
          /\ nodes'[root'].children = <<>>
          /\ nodes'[root'].n_visits = 0
          /\ evalCalls' = 0
    /\ FirstSearchOfUnvisited =>
          /\ nodes[root].children = <<>>
          /\ nodes'[root'].children # <<>>
          /\ nodes'[root'].n_visits = n_simulations
          /\ SumSeq(ChildVisits(nodes', root')) = n_simulations - 1

\* C29: update_with_move for an existing child that was never visited
\* leaves a root without children and calls the evaluator not at all; the
\* next get_move_probs with n_simulations >= 1 on a position that is not
\* game over returns with a root that has children, n_simulations visits
\* at the root and n_simulations - 1 visits at its children together.
C29_UnvisitedChildRoot == [][C29_Step]_vars

\* a root that was an unvisited child has been searched once, with two
\* simulations, and has children
C29_Witness ==
    /\ root # None
    /\ lastOp.op = "get_move_probs"
    /\ hist.origin = "child"
    /\ n_simulations = 2
    /\ hist.sims = 2
    /\ nodes[root].n_visits = 2
    /\ nodes[root].children # <<>>

----------------------------------------------------------------------------
(* Properties of what a self-play worker returns *)

\* C30: whatever a worker returns, after however many games and stopped or
\* not, its lists of inputs, policy targets and value targets have one
\* length, the sum of the game lengths it reports; its results and its game
\* lengths have one entry per game played; and the wins, losses and draws
\* it reports add up to its total_games.
C30_ResultAlignment ==
    \A w \in Workers :
        LET wk == pool.workers[w]
        IN  wk.pc = "returned" =>
              /\ Len(wk.inputs_list) = SumSeq(wk.game_lengths_list)
              /\ Len(wk.policy_targets_list) = Len(wk.inputs_list)
              /\ Len(wk.value_targets_list) = Len(wk.inputs_list)
              /\ Len(wk.results_list) = wk.game_no
              /\ Len(wk.game_lengths_list) = wk.game_no
              /\ ~wk.failed =>
                    /\ wk.st.total_games = wk.game_no
                    /\ wk.st.wins + wk.st.losses + wk.st.draws = wk.st.total_games

\* a worker returned two games, one of two plies that Black won and a
\* drawn one of one ply
C30_Witness ==
    \E w \in Workers :
        LET wk == pool.workers[w]
        IN  /\ wk.pc = "returned"
            /\ wk.game_no = 2
            /\ wk.st.losses = 1
            /\ wk.st.draws = 1
            /\ wk.game_lengths_list = <<2, 1>>
            /\ Len(wk.value_targets_list) = 3
            /\ wk.value_targets_list[1] # wk.value_targets_list[2]

====
